---- MODULE Spec2Model ----
(***************************************************************************)
(* State-machine model of the MCP stdio proxy (margbug01/ace-proxy):       *)
(* the per-backend request multiplexer (backend.rs), the bounded LRU       *)
(* backend pool and the run loop (proxy.rs) and the Unix process           *)
(* supervisor (process_group.rs).                                          *)
(*                                                                         *)
(* The main task is sequential: `pc` is its position.  While it awaits a   *)
(* reply inside send_request (pc = "await") the run loop does not take     *)
(* the next event of its select!; only the per-backend tasks and the child *)
(* processes move.                                                         *)
(*                                                                         *)
(* The writer task writes a line in the step that enqueues it (the child   *)
(* may exit just before the write, which ends the writer task); the reader *)
(* task dispatches a response in the step in which the child emits it.     *)
(***************************************************************************)
EXTENDS Integers, Sequences, FiniteSets, TLC

\* ---------------------------------------------------------------- bounds
\* number of messages the client writes to the proxy's stdin
MaxMsgs == 3
\* number of child processes spawned in one run (spawn fails beyond it)
MaxSpawns == 3
\* largest value of the monotonic clock (Instant::now())
MaxClock == 2
\* config.max_backends is drawn from 0..MaxCfgBackends
MaxCfgBackends == 2

\* file paths of the git filter have at most MaxDepth components
MaxDepth == 2
\* GitTrackedFiles::new is given at most MaxFiles files
MaxFiles == 2

\* workspace roots the client addresses.  A root is an opaque routing key,
\* so the client is taken to name them in this order of first use.
RootSeq == <<"A", "B", "C">>

Roots == {RootSeq[i] : i \in 1..Len(RootSeq)}

\* ------------------------------------------------------------ JSON-RPC ids
\* JsonRpcId::Number(n), JsonRpcId::String(s) and the absent id (None).  A
\* string is a sequence of characters.
Num(n) == [tag |-> "Number", n |-> n, s |-> <<>>]
Str(s) == [tag |-> "String", n |-> 0, s |-> s]
NoId == [tag |-> "None", n |-> 0, s |-> <<>>]

\* ids the client uses: an integer and a string
ClientIds == {Num(1), Str(<<"1">>)}

Digits == <<"0", "1", "2", "3", "4", "5", "6", "7", "8", "9">>

IsDigit(c) == \E i \in 1..10 : Digits[i] = c

DigitVal(c) == (CHOOSE i \in 1..10 : Digits[i] = c) - 1

RECURSIVE ParseDigits(_, _)
ParseDigits(s, acc) ==
    IF s = <<>> THEN acc ELSE ParseDigits(Tail(s), acc * 10 + DigitVal(Head(s)))

\* s.parse::<u64>().unwrap_or(0): a non-empty run of decimal digits parses to
\* its value, anything else yields 0
ParseU64OrZero(s) ==
    IF s # <<>> /\ \A i \in 1..Len(s) : IsDigit(s[i]) THEN ParseDigits(s, 0) ELSE 0

\* the decimal rendering a backend uses when it echoes an id as a string
Dec(n) ==
    IF n < 10 THEN <<Digits[n + 1]>>
    ELSE <<Digits[(n \div 10) + 1], Digits[(n % 10) + 1]>>

\* proxy id carried by a backend response id (reader task)
ResponseProxyId(id) ==
    IF id.tag = "Number" THEN id.n ELSE ParseU64OrZero(id.s)

\* ------------------------------------------------------------ error codes
ERROR_BACKEND_SPAWN_FAILED == -32001
ERROR_BACKEND_UNAVAILABLE == -32002
ERROR_BACKEND_TIMEOUT == -32003
ERROR_INTERNAL_ERROR == -32603
ERROR_PARSE_ERROR == -32700

\* route_to_backend retries once
RouteMaxRetries == 1

\* config.idle_ttl_seconds is set to this many clock units
IdleTtl == 1

\* ------------------------------------------------------------------ state
VARIABLES
    max_backends,    \* config.max_backends
    order,           \* McpProxy.backends: roots in the pool, LRU first, MRU last
    inst,            \* the BackendInstance stored for each root of the pool
    children,        \* every child process spawned, indexed by pid, with the
                     \* requests it has read and its writer task
    pending,         \* the pending table created by each spawn: pid -> entries
    tracked,         \* ProcessGroup.children: the supervisor's PID set
    next_proxy_id,   \* PROXY_ID_COUNTER
    clock,           \* Instant::now()
    pc,              \* position of the main task: "idle" in select!, "attempt"
                     \* and "await" in send_request_with_retry, "stopped" when
                     \* run has shut down all backends, "exited" / "failed"
                     \* when main has returned Ok / the write error
    cur,             \* the request the main task is routing
    slot,            \* the oneshot reply slot of the send_request in progress
    stdout,          \* responses written to the client, oldest first
    nread,           \* number of messages read from stdin so far
    nroots,          \* number of roots the client has named so far
    throttled,       \* EventThrottler.pending_paths, as the roots they fall under
    goc,             \* the latest get_or_create_backend call: the message it
                     \* served, its root, its error and the backend it evicted
                     \* (history)
    shutting_down,   \* McpProxy.shutting_down
    stdin,           \* what read_next_message has read from the client so
                     \* far, oldest first (history)
    nframes,         \* how many messages read_next_message has returned
    git_files,       \* the file set handed to GitTrackedFiles::new
    git_tracked,     \* the GitTrackedFiles value built from it
    git_query,       \* the latest path asked of is_tracked and the answer
    throttler,       \* the EventThrottler: pending_paths by path, last_flush
    outbound,        \* the batch notifications flush_throttled_events sent
    burst,           \* the file-change URIs received since the last flush
                     \* and the number of that flush (history)
    last_restart,    \* the latest call of BackendInstance::restart observed
                     \* on its own: the root, the result, the child owned
                     \* before and the number of processes before (history)
    last_reap,       \* the latest call of cleanup_idle_backends observed on
                     \* its own: the pool, the instances and the pending
                     \* tables it found (history)
    thr_obs,         \* an EventThrottler exercised on its own: the paths
                     \* added since the last flush and the latest answers of
                     \* should_flush and flush (history)
    git_cache,       \* McpProxy.git_tracked_cache and git_cache_timestamps
    cache_obs,       \* the latest is_path_git_tracked query and the cache
                     \* it found (history)
    teardown,        \* a ProcessGroup being dropped: its tracked PIDs, what
                     \* has become of each process, how far kill_all is and
                     \* the signals sent so far
    root_obs,        \* determine_root exercised on its own: the known roots,
                     \* the default root, the latest request and the answer
    reader,          \* the bytes on the proxy's stdin, the state of the
                     \* read_next_message future in the select, and the
                     \* messages handed to handle_message
    bline            \* the latest line a backend wrote that its reader task
                     \* took for a response, and whether its id named an
                     \* outstanding proxy id (history)

\* the variables only the scenario specifications move
svars == <<stdin, nframes, git_files, git_tracked, git_query, throttler, outbound, burst,
           last_restart, last_reap, thr_obs, git_cache, cache_obs, teardown, root_obs,
           reader, bline>>

\* the scenario variables by scenario: client input, git filter, throttler,
\* and the rest
ivars == <<stdin, nframes>>

gvars == <<git_files, git_tracked, git_query>>

tvars == <<throttler, outbound, burst>>

yvars == <<teardown, root_obs, reader, bline>>

xvars == <<last_restart, last_reap, thr_obs, git_cache, cache_obs, yvars>>

\* the variables of the proxy proper
pvars == <<max_backends, order, inst, children, pending, tracked, next_proxy_id,
           clock, pc, cur, slot, stdout, nread, nroots, throttled, goc,
           shutting_down>>

vars == <<max_backends, order, inst, children, pending, tracked, next_proxy_id,
          clock, pc, cur, slot, stdout, nread, nroots, throttled, goc,
          shutting_down, stdin, nframes, git_files, git_tracked, git_query,
          throttler, outbound, burst, last_restart, last_reap, thr_obs, git_cache,
          cache_obs, teardown, root_obs, reader, bline>>

\* --------------------------------------------------------------- helpers
Min(S) == CHOOSE x \in S : \A y \in S : x <= y

RECURSIVE Reverse(_)
Reverse(s) == IF s = <<>> THEN <<>> ELSE Append(Reverse(Tail(s)), Head(s))

Contains(seq, r) == \E i \in 1..Len(seq) : seq[i] = r

Remove(seq, r) == SelectSeq(seq, LAMBDA x : x # r)

\* no backend stored for a root
Absent == [state |-> "None", last_used |-> 0, child |-> 0, stdin_tx |-> 0, pending |-> 0]

NoCur == [reqno |-> 0, id |-> NoId, root |-> "-", attempt |-> 0, proxy_id |-> 0,
          expiries |-> 0, restarts |-> 0, victim |-> "-", pool |-> <<>>,
          last_error |-> "-"]

NoCall == [reqno |-> 0, root |-> "-", err |-> "-", victim |-> "-"]

NoResp == [id |-> NoId, kind |-> "none", code |-> 0, err |-> "-", msg |-> "-", val |-> 0]

\* the mutable world the main task's operations thread through
World == [order |-> order, inst |-> inst, children |-> children,
          pending |-> pending, tracked |-> tracked]


\* ------------------------------------------------------ process supervisor
\* ProcessGroup::add_process: insert into the tracked set (idempotent)
add_process(tr, pid) == tr \cup {pid}

\* ProcessGroup::remove_process: remove from the tracked set if present
remove_process(tr, pid) == tr \ {pid}

\* a kill signal delivered to a process: it is no longer alive and what it
\* had read but not answered dies with it
kill(ch, pid) == [ch EXCEPT ![pid].alive = FALSE, ![pid].inbox = {}]

RECURSIVE KillSet(_, _)
KillSet(ch, pids) ==
    IF pids = {} THEN ch
    ELSE LET p == CHOOSE x \in pids : TRUE IN KillSet(kill(ch, p), pids \ {p})

\* ProcessGroup::kill_all (run by Drop): SIGTERM, then SIGKILL, to every
\* tracked PID that names one of the proxy's children
kill_all(ch, tr) == KillSet(ch, tr \cap (1..Len(ch)))

\* --------------------------------------------------------- backend instance
\* variant: no backend is ever reported busy
has_pending_never(w, r) == FALSE

\* BackendInstance::has_pending: the pending table is non-empty
has_pending(w, r) == w.pending[w.inst[r].pending] # {}

\* BackendInstance::is_dead
is_dead(b) == b.state = "Dead"

\* health_check is called by cleanup_idle_backends; minimum viable health
\* check: state is Ready
health_check(b) == b.state = "Ready"

\* the stdin sender is dropped: the channel closes and the writer task ends
CloseStdin(ch, tx) == IF tx # 0 THEN [ch EXCEPT ![tx].writer = FALSE] ELSE ch

\* variant: shutdown drops the handles but does not kill the child
shutdown_no_kill(w, r) ==
    LET b == w.inst[r]
    IN [w EXCEPT !.children = CloseStdin(@, b.stdin_tx),
                 !.inst[r] = [b EXCEPT !.state = "Dead", !.stdin_tx = 0, !.child = 0]]

\* BackendInstance::shutdown: Stopping, drop the stdin sender, kill the child,
\* Dead
shutdown(w, r) ==
    LET b == w.inst[r]
        ch1 == CloseStdin(w.children, b.stdin_tx)
        ch2 == IF b.child # 0 THEN kill(ch1, b.child) ELSE ch1
    IN [w EXCEPT !.children = ch2,
                 !.inst[r] = [b EXCEPT !.state = "Dead", !.stdin_tx = 0, !.child = 0]]

\* Drop for BackendInstance: start_kill on the child still owned; the fields
\* (the stdin sender among them) are dropped
drop_backend(w, b) ==
    LET ch1 == CloseStdin(w.children, b.stdin_tx)
    IN [w EXCEPT !.children = IF b.child # 0 THEN kill(ch1, b.child) ELSE ch1]

NewChild == [alive |-> TRUE, inbox |-> {}, writer |-> TRUE]

\* spawn_internal, success: start the child, register its PID with the
\* supervisor, create the stdin channel and the pending table, start the
\* writer and reader tasks; the instance is Ready with last_used = now
spawn_internal(w, now) ==
    LET pid == Len(w.children) + 1
    IN [w |-> [w EXCEPT !.children = Append(@, NewChild),
                        !.pending = Append(@, {}),
                        !.tracked = add_process(@, pid)],
        b |-> [state |-> "Ready", last_used |-> now, child |-> pid,
               stdin_tx |-> pid, pending |-> pid]]

\* variant: the fields are copied and the temporary keeps its own
TakeFields_copy(b) == b

\* restart: std::mem::take moves the child and the stdin sender out of the
\* temporary instance, which is left with None for both
TakeFields(b) == [b EXCEPT !.child = 0, !.stdin_tx = 0]

\* BackendInstance::restart: shutdown, respawn, take the new instance's child,
\* stdin sender and pending table; the emptied temporary is then dropped
restart(w, r, spawn_ok, now) ==
    LET w1 == shutdown(w, r)
    IN IF ~spawn_ok THEN [ok |-> FALSE, w |-> w1]
       ELSE LET sp == spawn_internal(w1, now)
                taken == TakeFields(sp.b)
                w2 == [sp.w EXCEPT !.inst[r] =
                          [state |-> sp.b.state, last_used |-> now,
                           child |-> sp.b.child, stdin_tx |-> sp.b.stdin_tx,
                           pending |-> sp.b.pending]]
            IN [ok |-> TRUE, w |-> drop_backend(w2, taken)]

\* a message as serialized for the backend: the id and the payload (method
\* and params, named by the number of the client message)
Line(id, reqno) == [id |-> id, reqno |-> reqno]

\* writer task: write an enqueued line to the child's stdin.  The child reads
\* it, unless the child is gone (it may exit just before the write): the
\* write fails and the writer task ends, dropping the channel's receiver.
WriteLine(ch, tx, line, crash) ==
    IF ch[tx].alive /\ ~crash
    THEN [ch EXCEPT ![tx].inbox = IF line.id.tag = "None" THEN @ ELSE @ \cup {line}]
    ELSE [kill(ch, tx) EXCEPT ![tx].writer = FALSE]

\* pending.insert(proxy_id, ..): a HashMap insert replaces an entry with the
\* same key
PendingInsert(tbl, e) == {x \in tbl : x.proxy_id # e.proxy_id} \cup {e}

\* variant: the entry is left in the table
PendingRemove_keep(tbl, proxy_id) == tbl

PendingRemove(tbl, proxy_id) == {x \in tbl : x.proxy_id # proxy_id}

\* variant: the counter wraps around to 1 after 2
FetchAdd_wrap(counter) == IF counter >= 2 THEN 1 ELSE counter + 1

\* variant: the counter is read but not advanced
FetchAdd_stuck(counter) == counter

\* PROXY_ID_COUNTER.fetch_add(1): the counter after the call
FetchAdd(counter) == counter + 1

\* send_request up to the await of the reply: update last_used, allocate the
\* proxy id, register the pending entry, replace the id and enqueue the line.
\* The enqueue fails when the writer task has ended (receiver dropped).
send_request_begin(w, r, client_id, reqno, call, counter, now, crash) ==
    LET b == w.inst[r]
        w1 == [w EXCEPT !.inst[r].last_used = now]
    IN IF b.stdin_tx = 0
       THEN [res |-> "Err", err |-> "BackendUnavailable", w |-> w1,
             counter |-> counter, proxy_id |-> 0]
       ELSE LET proxy_id == counter
                e == [proxy_id |-> proxy_id, client_id |-> client_id, call |-> call]
                w2 == [w1 EXCEPT !.pending[b.pending] = PendingInsert(@, e)]
                line == Line(Num(proxy_id), reqno)
            IN IF w2.children[b.stdin_tx].writer
               THEN [res |-> "Sent", err |-> "-",
                     w |-> [w2 EXCEPT !.children = WriteLine(@, b.stdin_tx, line, crash)],
                     counter |-> FetchAdd(counter), proxy_id |-> proxy_id]
               ELSE [res |-> "Err", err |-> "BackendUnavailable", w |-> w2,
                     counter |-> FetchAdd(counter), proxy_id |-> proxy_id]

\* send_notification: update last_used and enqueue the line untranslated
send_notification(w, r, reqno, now, crash) ==
    LET b == w.inst[r]
        w1 == [w EXCEPT !.inst[r].last_used = now]
    IN IF b.stdin_tx = 0 THEN [ok |-> FALSE, w |-> w1]
       ELSE IF w1.children[b.stdin_tx].writer
            THEN [ok |-> TRUE,
                  w |-> [w1 EXCEPT !.children =
                            WriteLine(@, b.stdin_tx, Line(NoId, reqno), crash)]]
            ELSE [ok |-> FALSE, w |-> w1]

\* ------------------------------------------------------------ backend pool
\* variant: the capacity is one more than configured
BackendsCapacity_plus_one(mb) == mb + 1

\* McpProxy::new: capacity of the LRU cache, max_backends.max(1)
BackendsCapacity(mb) == IF mb > 1 THEN mb ELSE 1

Cap == BackendsCapacity(max_backends)

\* LruCache::iter(): most recently used first
LruIter(ord) == Reverse(ord)

\* variant: the scan is not reversed and runs MRU to LRU
EvictCandidates_mru_first(ord) == LruIter(ord)

\* variant: the lookup does not promote, as peek_mut
lru_get_mut_peek(ord, r) == ord

\* LruCache::get_mut: the entry becomes the most recently used
lru_get_mut(ord, r) == Append(Remove(ord, r), r)

\* evict_lru_backend: the scan order, LRU to MRU (iter() reversed)
EvictCandidates(ord) == Reverse(LruIter(ord))

\* evict_lru_backend: shut down and remove the first candidate without
\* pending requests
evict_lru_backend(w) ==
    LET cands == EvictCandidates(w.order)
        idle == {i \in 1..Len(cands) : ~has_pending(w, cands[i])}
    IN IF idle = {} THEN [ok |-> FALSE, w |-> w, victim |-> "-"]
       ELSE LET r == cands[Min(idle)]
                w1 == shutdown(w, r)
            IN [ok |-> TRUE, victim |-> r,
                w |-> [w1 EXCEPT !.order = Remove(@, r), !.inst[r] = Absent]]

\* LruCache::put: insert as most recently used; at capacity the least
\* recently used entry is removed first and dropped
lru_put(w, r, b, capacity) ==
    IF Contains(w.order, r)
    THEN [drop_backend(w, w.inst[r]) EXCEPT !.inst[r] = b,
                                             !.order = Append(Remove(@, r), r)]
    ELSE IF Len(w.order) >= capacity
         THEN LET old == Head(w.order)
                  w1 == drop_backend(w, w.inst[old])
              IN [w1 EXCEPT !.inst[old] = Absent, !.inst[r] = b,
                            !.order = Append(Tail(@), r)]
         ELSE [w EXCEPT !.inst[r] = b, !.order = Append(@, r)]

\* get_or_create_backend: make room when the pool is full, spawn when the
\* root is absent, promote to most recently used
get_or_create_backend(w, root, spawn_ok, now) ==
    LET need == Len(w.order) >= Cap /\ ~Contains(w.order, root)
        ev == IF need THEN evict_lru_backend(w)
              ELSE [ok |-> TRUE, w |-> w, victim |-> "-"]
    IN IF ~ev.ok
       THEN [err |-> "BackendUnavailable", msg |-> "cannot evict LRU", w |-> w,
             victim |-> "-"]
       ELSE IF ~Contains(ev.w.order, root)
            THEN IF ~spawn_ok
                 THEN [err |-> "BackendSpawnFailed", msg |-> "Failed to spawn backend",
                       w |-> ev.w, victim |-> ev.victim]
                 ELSE LET sp == spawn_internal(ev.w, now)
                          w2 == lru_put(sp.w, root, sp.b, Cap)
                      IN [err |-> "none", msg |-> "-",
                          w |-> [w2 EXCEPT !.order = lru_get_mut(@, root)],
                          victim |-> ev.victim]
            ELSE [err |-> "none", msg |-> "-",
                  w |-> [ev.w EXCEPT !.order = lru_get_mut(@, root)],
                  victim |-> ev.victim]

RECURSIVE ShutdownSeq(_, _)
ShutdownSeq(w, roots) ==
    IF roots = <<>> THEN w
    ELSE LET r == Head(roots)
             w1 == shutdown(w, r)
         IN ShutdownSeq([w1 EXCEPT !.order = Remove(@, r), !.inst[r] = Absent],
                        Tail(roots))

\* variant: the pool is left as it is
shutdown_all_backends_skip(w) == w

\* shutdown_all_backends: pop_lru until the pool is empty, shutting down each
shutdown_all_backends(w) == ShutdownSeq(w, w.order)

\* variant: a backend that fails the health check is left in the pool
CleanupMarked_idle_only(w, ttl, now) ==
    SelectSeq(LruIter(w.order), LAMBDA r :
        now - w.inst[r].last_used > ttl /\ ~has_pending(w, r))

\* cleanup_idle_backends: the roots marked for removal
CleanupMarked(w, ttl, now) ==
    LET check == LruIter(w.order)
    IN SelectSeq(check, LAMBDA r :
           \/ ~health_check(w.inst[r])
           \/ (now - w.inst[r].last_used > ttl /\ ~has_pending(w, r)))

\* cleanup_idle_backends: shut down and remove the marked backends
cleanup_idle_backends(w, ttl, now) == ShutdownSeq(w, CleanupMarked(w, ttl, now))

\* the orders in which a HashMap may iterate over the keys S
RECURSIVE Orderings(_)
Orderings(S) ==
    IF S = {} THEN {<<>>}
    ELSE UNION {{<<x>> \o t : t \in Orderings(S \ {x})} : x \in S}

\* flush_throttled_events: the batch notification per root, sent only to a
\* backend that is in the pool
\* variant: the roots flushed to leave the pool
FlushSeq_evict(w, roots, now, crashing) ==
    [w EXCEPT !.order = SelectSeq(@, LAMBDA r : ~Contains(roots, r))]

RECURSIVE FlushSeq(_, _, _, _)
FlushSeq(w, roots, now, crashing) ==
    IF roots = <<>> THEN w
    ELSE LET r == Head(roots)
             w1 == [w EXCEPT !.order = lru_get_mut(@, r)]
         IN FlushSeq(IF Contains(w.order, r)
                     THEN send_notification(w1, r, 0, now, r \in crashing).w
                     ELSE w,
                     Tail(roots), now, crashing)

RECURSIVE DropSeq(_, _)
DropSeq(w, roots) ==
    IF roots = <<>> THEN w
    ELSE LET r == Head(roots)
             w1 == drop_backend(w, w.inst[r])
         IN DropSeq([w1 EXCEPT !.order = Remove(@, r), !.inst[r] = Absent], Tail(roots))

\* variant: the process ends without running any destructor
drop_proxy_none(w) == w

\* main returns and the proxy is dropped: every backend still in the pool is
\* dropped, then the supervisor
drop_proxy(w) ==
    LET w1 == DropSeq(w, w.order)
    IN [w1 EXCEPT !.children = kill_all(@, w1.tracked)]

\* ------------------------------------------------------------- responses
ErrorResp(id, code, err, msg) ==
    [id |-> id, kind |-> "error", code |-> code, err |-> err, msg |-> msg, val |-> 0]

SuccessResp(id, val) ==
    [id |-> id, kind |-> "result", code |-> 0, err |-> "-", msg |-> "-", val |-> val]

\* a line of stdout: the response, and which client message it answers and
\* what routing it took (history, not program state)
Entry(resp, c) ==
    [id |-> resp.id, kind |-> resp.kind, code |-> resp.code, err |-> resp.err,
     msg |-> resp.msg, val |-> resp.val, for |-> c.reqno, cid |-> c.id,
     root |-> c.root, expiries |-> c.expiries, restarts |-> c.restarts,
     victim |-> c.victim, pool |-> c.pool]

\* route_to_backend: code of the error response for a get_or_create failure
GetOrCreateErrorCode(err) ==
    IF err = "BackendUnavailable" THEN ERROR_BACKEND_UNAVAILABLE
    ELSE ERROR_BACKEND_SPAWN_FAILED

Commit(w) ==
    /\ order' = w.order
    /\ inst' = w.inst
    /\ children' = w.children
    /\ pending' = w.pending
    /\ tracked' = w.tracked

\* the roots the next client message can name, and the count after naming r
NextRoots == {RootSeq[i] : i \in 1..(IF nroots < Len(RootSeq) THEN nroots + 1 ELSE nroots)}

Named(r) == IF r = RootSeq[IF nroots < Len(RootSeq) THEN nroots + 1 ELSE nroots]
            THEN (IF nroots < Len(RootSeq) THEN nroots + 1 ELSE nroots)
            ELSE nroots

\* a spawn can succeed only while the run has spawned fewer than MaxSpawns
SpawnOutcomes == IF Len(children) < MaxSpawns THEN {TRUE, FALSE} ELSE {FALSE}

\* run: write the response and flush; a write error makes run return early
\* (main returns and the proxy is dropped)
WriteResponse(w, entry, wok) ==
    /\ cur' = NoCur
    /\ slot' = NoResp
    /\ IF wok
       THEN stdout' = Append(stdout, entry) /\ Commit(w) /\ pc' = "idle"
       ELSE stdout' = stdout /\ Commit(drop_proxy(w)) /\ pc' = "failed"

\* the proxy proper before its first step
ProxyInit ==
    /\ order = <<>>
    /\ inst = [r \in Roots |-> Absent]
    /\ children = <<>>
    /\ pending = <<>>
    /\ tracked = {}
    /\ next_proxy_id = 1
    /\ clock = 0
    /\ pc = "idle"
    /\ cur = NoCur
    /\ slot = NoResp
    /\ stdout = <<>>
    /\ nread = 0
    /\ nroots = 0
    /\ throttled = {}
    /\ goc = NoCall
    /\ shutting_down = FALSE

NoTracked == [files |-> {}, directories |-> {}, built |-> FALSE]

\* the debounce window, in clock units
DebounceTicks == 1

\* EventThrottler::new(debounce_ms): nothing pending, last_flush = now
EventThrottlerNew(debounce_ms, now) ==
    [pending_paths |-> {}, last_flush |-> now, debounce_duration |-> debounce_ms]

\* McpProxy::new: Some(EventThrottler::new(config.debounce_ms))
NewThrottler == EventThrottlerNew(DebounceTicks, 0)

NoBurst == [uris |-> <<>>, flush |-> 1]

NoReap == [done |-> FALSE, order |-> <<>>, inst |-> <<>>, pending |-> <<>>]

NoThrObs == [window |-> 0, since |-> 0, added |-> {}, asked |-> FALSE, at |-> 0,
             answer |-> FALSE, flushed |-> FALSE, some |-> FALSE, paths |-> <<>>,
             before |-> {}]

\* no root has an entry in the git cache
EmptyGitCache == [r \in Roots |-> [present |-> FALSE, stamped |-> FALSE, ts |-> 0]]

NoCacheObs == [asked |-> FALSE, root |-> "-", before |-> <<>>, hit |-> FALSE,
               fetched |-> FALSE]

\* a ProcessGroup tracking nothing, not being dropped
NoTeardown == [tracked |-> {}, status |-> <<>>, order |-> <<>>, phase |-> "live",
               i |-> 0, log |-> <<>>]

NoRootObs == [roots |-> <<>>, default |-> "-", asked |-> FALSE, path |-> <<>>,
              git_root |-> "-", answer |-> "-", before |-> <<>>, for |-> 0]

\* a read_next_message future that has read nothing yet
NewFuture == [phase |-> "first", acc |-> <<>>, len_of |-> 0]

NoReader == [sent |-> <<>>, stream |-> <<>>, fut |-> NewFuture, handed |-> <<>>,
             done |-> FALSE]

NoLine == [n |-> 0, pid |-> 0, id |-> NoId, known |-> FALSE]

NoRestart == [done |-> FALSE, root |-> "-", ok |-> FALSE, old_child |-> 0, spawned |-> 0]

NoQuery == [path |-> <<>>, asked |-> FALSE, answer |-> FALSE]

\* the scenario variables at rest
ScenarioIdle ==
    /\ stdin = <<>>
    /\ nframes = 0
    /\ git_files = {}
    /\ git_tracked = NoTracked
    /\ git_query = NoQuery
    /\ throttler = NewThrottler
    /\ outbound = <<>>
    /\ burst = NoBurst
    /\ last_restart = NoRestart
    /\ last_reap = NoReap
    /\ thr_obs = NoThrObs
    /\ git_cache = EmptyGitCache
    /\ cache_obs = NoCacheObs
    /\ teardown = NoTeardown
    /\ root_obs = NoRootObs
    /\ reader = NoReader
    /\ bline = NoLine

\* ------------------------------------------------------------------- Init
Init ==
    /\ max_backends \in 0..MaxCfgBackends
    /\ order = <<>>
    /\ inst = [r \in Roots |-> Absent]
    /\ children = <<>>
    /\ pending = <<>>
    /\ tracked = {}
    /\ next_proxy_id = 1
    /\ clock = 0
    /\ pc = "idle"
    /\ cur = NoCur
    /\ slot = NoResp
    /\ stdout = <<>>
    /\ nread = 0
    /\ nroots = 0
    /\ throttled = {}
    /\ goc = NoCall
    /\ shutting_down = FALSE
    /\ ScenarioIdle

\* ------------------------------------------------------------- main task
\* run -> handle_message -> route_to_backend, up to send_request_with_retry:
\* read a request with an id, get or create the backend of its root
route_to_root(id, root, spawn_ok, wok) ==
    /\ pc = "idle"
    /\ nread < MaxMsgs
    /\ nread' = nread + 1
    /\ nroots' = Named(root)
    /\ UNCHANGED <<max_backends, next_proxy_id, clock, throttled, shutting_down>>
    /\ LET g == get_or_create_backend(World, root, spawn_ok, clock)
           c == [NoCur EXCEPT !.reqno = nread + 1, !.id = id, !.root = root,
                              !.victim = g.victim, !.pool = order]
       IN /\ goc' = [reqno |-> nread + 1, root |-> root, err |-> g.err, victim |-> g.victim]
          /\ IF g.err # "none"
             THEN WriteResponse(g.w,
                      Entry(ErrorResp(id, GetOrCreateErrorCode(g.err), g.err, g.msg), c),
                      wok)
             ELSE /\ Commit(g.w)
                  /\ cur' = c
                  /\ pc' = "attempt"
                  /\ UNCHANGED <<slot, stdout>>

\* route_to_backend for a request whose root determine_root found
route_to_backend(id, root, spawn_ok, wok) ==
    route_to_root(id, root, spawn_ok, wok) /\ UNCHANGED svars

\* route_to_backend when determine_root finds no root: the error response
\* is returned at once
route_no_root(id, wok) ==
    /\ pc = "idle"
    /\ nread < MaxMsgs
    /\ nread' = nread + 1
    /\ UNCHANGED <<max_backends, next_proxy_id, clock, throttled, shutting_down, nroots,
                   goc>>
    /\ WriteResponse(World,
           Entry(ErrorResp(id, ERROR_BACKEND_UNAVAILABLE, "BackendUnavailable",
                           "No workspace root available for routing"),
                 [NoCur EXCEPT !.reqno = nread + 1, !.id = id, !.pool = order]),
           wok)

\* variant: the backend is left in its state before the next attempt
MarkDeadForRetry_skip(b) == b

\* send_request_with_retry: before the next attempt, mark the backend Dead so
\* that the attempt restarts it
MarkDeadForRetry(b) == [b EXCEPT !.state = "Dead"]

\* send_request_with_retry: an attempt failed with error e; retry, or after
\* the last attempt return the error, which route_to_backend answers with
\* InternalError carrying the error text
AttemptFailed(w, e, c, wok) ==
    IF c.attempt < RouteMaxRetries
    THEN /\ Commit([w EXCEPT !.inst[c.root] = MarkDeadForRetry(@)])
         /\ cur' = [c EXCEPT !.attempt = @ + 1, !.last_error = e, !.proxy_id = 0]
         /\ pc' = "attempt"
         /\ slot' = NoResp
         /\ stdout' = stdout
    ELSE WriteResponse(w, Entry(ErrorResp(c.id, ERROR_INTERNAL_ERROR, e, e), c), wok)

\* variant: a dead backend is restarted on every attempt, the first included
NeedsRestart_eager(b, attempt) == is_dead(b)

\* send_request_with_retry: `self.is_dead() && attempt > 0`
NeedsRestart(b, attempt) == is_dead(b) /\ attempt > 0

\* send_request_with_retry: one iteration of the loop, up to the await of the
\* reply: restart a dead backend (attempt > 0), then send_request
send_request_with_retry(spawn_ok, crash, wok) ==
    /\ pc = "attempt"
    /\ UNCHANGED <<svars, max_backends, clock, nread, nroots, throttled, goc, shutting_down>>
    /\ LET r == cur.root
           need == NeedsRestart(inst[r], cur.attempt)
           rs == IF need THEN restart(World, r, spawn_ok, clock)
                 ELSE [ok |-> TRUE, w |-> World]
           c0 == IF need /\ rs.ok THEN [cur EXCEPT !.restarts = @ + 1] ELSE cur
       IN IF ~rs.ok
          THEN \* restart failed: remember the error and continue the loop
               /\ next_proxy_id' = next_proxy_id
               /\ AttemptFailed(rs.w, "BackendSpawnFailed", c0, wok)
          ELSE LET s == send_request_begin(rs.w, r, c0.id, c0.reqno,
                                           <<c0.reqno, c0.attempt>>,
                                           next_proxy_id, clock, crash)
               IN /\ next_proxy_id' = s.counter
                  /\ IF s.res = "Sent"
                     THEN /\ Commit(s.w)
                          /\ cur' = [c0 EXCEPT !.proxy_id = s.proxy_id]
                          /\ pc' = "await"
                          /\ slot' = NoResp
                          /\ stdout' = stdout
                     ELSE AttemptFailed(s.w, s.err, c0, wok)

\* send_request: the reply slot holds a response; it goes back to the client
send_request_reply(wok) ==
    /\ pc = "await"
    /\ slot.kind # "none"
    /\ UNCHANGED <<svars, max_backends, next_proxy_id, clock, nread, nroots, throttled, goc, shutting_down>>
    /\ WriteResponse(World, Entry(slot, cur), wok)

\* send_request: the deadline elapsed; remove the pending entry and fail with
\* BackendTimeout (the state stays as it is).  The reply slot closes without
\* a value only when its sender is dropped, and the sender stays in the
\* pending table until a reply or this removal: that outcome does not occur.
send_request_timeout(wok) ==
    /\ pc = "await"
    /\ slot.kind = "none"
    /\ clock < MaxClock
    /\ clock' = clock + 1
    /\ UNCHANGED <<svars, max_backends, next_proxy_id, nread, nroots, throttled, goc, shutting_down>>
    /\ LET tbl == inst[cur.root].pending
           w == [World EXCEPT !.pending[tbl] = PendingRemove(@, cur.proxy_id)]
       IN AttemptFailed(w, "BackendTimeout", [cur EXCEPT !.expiries = @ + 1], wok)

\* handle_message -> forward_notification_to_backend: a notification that is
\* not throttled is sent to the backend of its root; it is never answered
forward_notification_to_backend(root, spawn_ok, crash) ==
    /\ pc = "idle"
    /\ nread < MaxMsgs
    /\ nread' = nread + 1
    /\ nroots' = Named(root)
    /\ UNCHANGED <<svars, max_backends, next_proxy_id, clock, pc, cur, slot, stdout,
                   throttled, shutting_down>>
    /\ LET g == get_or_create_backend(World, root, spawn_ok, clock)
       IN /\ goc' = [reqno |-> nread + 1, root |-> root, err |-> g.err, victim |-> g.victim]
          /\ IF g.err # "none" THEN Commit(g.w)
             ELSE Commit(send_notification(g.w, root, nread + 1, clock, crash).w)

\* handle_message: a file-change notification, with the throttler enabled,
\* is not forwarded; its path joins the throttler's pending paths
handle_throttled(root) ==
    /\ pc = "idle"
    /\ nread < MaxMsgs
    /\ nread' = nread + 1
    /\ nroots' = Named(root)
    /\ throttled' = throttled \cup {root}
    /\ UNCHANGED <<max_backends, order, inst, children, pending, tracked,
                   next_proxy_id, clock, pc, cur, slot, stdout, goc, shutting_down>>

throttle_notification(root) == handle_throttled(root) /\ UNCHANGED svars

\* run: the throttle tick.  flush_throttled_events drains the pending paths,
\* groups them by root and, in the HashMap's iteration order, sends one
\* batch notification to each root that has a backend in the pool (get_mut
\* promotes it); no backend is created.
flush_to_backends(roots, crashing) ==
    /\ pc = "idle"
    /\ throttled # {}
    /\ roots \in Orderings(throttled)
    /\ throttled' = {}
    /\ Commit(FlushSeq(World, roots, clock, crashing))
    /\ UNCHANGED <<max_backends, next_proxy_id, clock, pc, cur, slot, stdout, nread,
                   nroots, goc, shutting_down>>

flush_throttled_events(roots, crashing) ==
    flush_to_backends(roots, crashing) /\ UNCHANGED svars

\* handle_shutdown, then the break of the run loop: mark shutting_down, shut
\* down all backends, reply null; the loop ends and run shuts down all
\* backends again
handle_shutdown(id, wok) ==
    /\ pc = "idle"
    /\ nread < MaxMsgs
    /\ nread' = nread + 1
    /\ shutting_down' = TRUE
    /\ UNCHANGED <<svars, max_backends, next_proxy_id, clock, cur, slot, nroots, throttled, goc>>
    /\ LET w1 == shutdown_all_backends(World)
           c == [NoCur EXCEPT !.reqno = nread + 1, !.id = id]
       IN IF wok
          THEN /\ stdout' = Append(stdout, Entry(SuccessResp(id, 0), c))
               /\ Commit(shutdown_all_backends(w1))
               /\ pc' = "stopped"
          ELSE /\ stdout' = stdout
               /\ Commit(drop_proxy(w1))
               /\ pc' = "failed"

\* the `exit` notification: mark shutting_down; the loop ends and run shuts
\* down all backends
handle_exit ==
    /\ pc = "idle"
    /\ nread < MaxMsgs
    /\ nread' = nread + 1
    /\ shutting_down' = TRUE
    /\ Commit(shutdown_all_backends(World))
    /\ pc' = "stopped"
    /\ UNCHANGED <<svars, max_backends, next_proxy_id, clock, cur, slot, stdout, nroots, throttled, goc>>

\* read_next_message returns Ok(None) (EOF) or Err (I/O error, bad
\* Content-Length): the loop ends and run shuts down all backends
loop_ends ==
    /\ pc = "idle"
    /\ Commit(shutdown_all_backends(World))
    /\ pc' = "stopped"
    /\ UNCHANGED <<max_backends, next_proxy_id, clock, cur, slot, stdout, nread, nroots, throttled, goc,
                   shutting_down>>

stdin_ends == loop_ends /\ UNCHANGED svars

\* variant: the tick branch is taken while a handler awaits a reply
select_ready_while_awaiting(p) == p \in {"idle", "await"}

\* run: select! takes the next event only after the body of the previous
\* branch has run to completion
select_ready(p) == p = "idle"

\* run: the cleanup tick
cleanup_tick ==
    /\ select_ready(pc)
    /\ order # <<>>
    /\ Commit(cleanup_idle_backends(World, IdleTtl, clock))
    /\ UNCHANGED <<svars, max_backends, next_proxy_id, clock, pc, cur, slot, stdout, nread, nroots, throttled, goc,
                   shutting_down>>

\* time passes while the run loop waits in select!
advance_clock ==
    /\ pc = "idle"
    /\ clock < MaxClock
    /\ clock' = clock + 1
    /\ UNCHANGED <<svars, max_backends, order, inst, children, pending, tracked,
                   next_proxy_id, pc, cur, slot, stdout, nread, nroots, throttled, goc, shutting_down>>

\* run has returned Ok: main returns and the proxy is dropped
process_exit ==
    /\ pc = "stopped"
    /\ Commit(drop_proxy(World))
    /\ pc' = "exited"
    /\ UNCHANGED <<svars, max_backends, next_proxy_id, clock, cur, slot, stdout, nread, nroots, throttled, goc,
                   shutting_down>>

\* ------------------------------------------------- child and reader task
\* The children and the reader tasks move while the main task waits, in
\* select! or for a reply.
Running == pc \in {"idle", "await"}

\* variant: the response keeps the id the backend echoed
RestoreId_keep(resp, e) == resp

\* reader task: restore the client's id on a response
RestoreId(resp, e) == [resp EXCEPT !.id = e.client_id]

\* variant: a response that names no entry goes to any waiting entry
ReaderHit_any(tbl, resp) ==
    IF \E e \in tbl : e.proxy_id = ResponseProxyId(resp.id)
    THEN {e \in tbl : e.proxy_id = ResponseProxyId(resp.id)}
    ELSE tbl

\* reader task, one line of the child's stdout: the entries of the pending
\* table that the response's proxy id names
ReaderHit(tbl, resp) == {e \in tbl : e.proxy_id = ResponseProxyId(resp.id)}

\* reader task, one response line of child pid: the pending entry its proxy
\* id names is removed and the response, with the client's id restored, goes
\* to the reply slot of the call that registered the entry (if that call
\* still waits); a response that names no entry is logged and dropped
ReaderTask(pid, resp) ==
    LET hit == ReaderHit(pending[pid], resp)
    IN IF hit # {}
       THEN LET e == CHOOSE x \in hit : TRUE
            IN /\ pending' = [pending EXCEPT ![pid] = @ \ {e}]
               /\ IF pc = "await" /\ e.call = <<cur.reqno, cur.attempt>>
                  THEN slot' = RestoreId(resp, e)
                  ELSE slot' = slot
       ELSE UNCHANGED <<pending, slot>>

\* The backend answers a request it has read, echoing the id it was given as
\* a number or as a string.  The reader task of that spawn removes the
\* pending entry, restores the client id and hands the response to the reply
\* slot of the call that registered the entry (if that call still waits).
\* The backend may exit right after answering.
child_replies(pid, line, as_string, exits) ==
    /\ Running
    /\ children[pid].alive
    /\ line \in children[pid].inbox
    /\ children' = IF exits THEN kill(children, pid)
                   ELSE [children EXCEPT ![pid].inbox = @ \ {line}]
    /\ LET rid == IF as_string THEN Str(Dec(line.id.n)) ELSE line.id
       IN ReaderTask(pid, SuccessResp(rid, line.reqno))
    /\ UNCHANGED <<svars, max_backends, order, inst, tracked, next_proxy_id, clock, pc, cur,
                   stdout, nread, nroots, throttled, goc, shutting_down>>

\* the backend process exits on its own
child_exits(pid) ==
    /\ Running
    /\ children[pid].alive
    /\ children' = kill(children, pid)
    /\ UNCHANGED <<svars, max_backends, order, inst, pending, tracked, next_proxy_id, clock,
                   pc, cur, slot, stdout, nread, nroots, throttled, goc, shutting_down>>

\* ------------------------------------------------------------------- Next
Next ==
    \/ \E id \in ClientIds, root \in NextRoots, spawn_ok \in SpawnOutcomes, wok \in BOOLEAN :
           route_to_backend(id, root, spawn_ok, wok)
    \/ \E spawn_ok \in SpawnOutcomes, crash \in BOOLEAN, wok \in BOOLEAN :
           send_request_with_retry(spawn_ok, crash, wok)
    \/ \E wok \in BOOLEAN : send_request_reply(wok)
    \/ \E wok \in BOOLEAN : send_request_timeout(wok)
    \/ \E root \in NextRoots, spawn_ok \in SpawnOutcomes, crash \in BOOLEAN :
           forward_notification_to_backend(root, spawn_ok, crash)
    \/ \E id \in ClientIds, wok \in BOOLEAN : handle_shutdown(id, wok)
    \/ \E root \in NextRoots : throttle_notification(root)
    \/ \E roots \in Orderings(throttled), crashing \in SUBSET throttled :
           flush_throttled_events(roots, crashing)
    \/ handle_exit
    \/ stdin_ends
    \/ cleanup_tick
    \/ advance_clock
    \/ process_exit
    \/ \E pid \in 1..Len(children), as_string \in BOOLEAN, exits \in BOOLEAN :
           \E line \in children[pid].inbox : child_replies(pid, line, as_string, exits)
    \/ \E pid \in 1..Len(children) : child_exits(pid)

Spec == Init /\ [][Next]_vars

\* ===========================================================================
\* Scenario: a backend that exits after answering one request
\* ===========================================================================
\* The client sends two requests to root A.  Every spawn succeeds, every
\* write to the client succeeds, and a backend answers a request it has read
\* and exits in the same step; a deadline elapses only on a request written
\* to a backend that is gone.
crash_client ==
    /\ nread < 2
    /\ \E id \in ClientIds : route_to_backend(id, RootSeq[1], TRUE, TRUE)

crash_attempt == send_request_with_retry(TRUE, FALSE, TRUE)

crash_reply == send_request_reply(TRUE)

crash_timeout ==
    /\ pc = "await"
    /\ ~children[inst[cur.root].child].alive
    /\ send_request_timeout(TRUE)

crash_child ==
    \E pid \in 1..Len(children), as_string \in BOOLEAN :
        \E line \in children[pid].inbox : child_replies(pid, line, as_string, TRUE)

NextCrash ==
    \/ crash_client
    \/ crash_attempt
    \/ crash_reply
    \/ crash_timeout
    \/ crash_child
    \/ advance_clock

SpecCrash == Init /\ [][NextCrash]_vars

\* ===========================================================================
\* Scenario: the git filter (git_filter.rs)
\* ===========================================================================
\* An absolute path is the sequence of its components; <<>> is "/".
GitNames == {"a", "b"}

RECURSIVE PathsUpTo(_)
PathsUpTo(n) ==
    IF n = 0 THEN {<<>>}
    ELSE PathsUpTo(n - 1) \cup
         {Append(q, c) : q \in {x \in PathsUpTo(n - 1) : Len(x) = n - 1}, c \in GitNames}

GitPaths == PathsUpTo(MaxDepth)

\* Path::parent: None for "/", else the path without its last component
HasParent(path) == path # <<>>

Parent(path) == SubSeq(path, 1, Len(path) - 1)

\* variant: only the immediate parent of a file is recorded
AddAncestors_parent_only(dirs, path) ==
    IF HasParent(path) THEN dirs \cup {Parent(path)} ELSE dirs

\* GitTrackedFiles::new, inner loop: walk up from a file, inserting each
\* ancestor, and stop at the first one that is already present
RECURSIVE AddAncestors(_, _)
AddAncestors(dirs, path) ==
    IF ~HasParent(path) THEN dirs
    ELSE IF Parent(path) \in dirs THEN dirs
         ELSE AddAncestors(dirs \cup {Parent(path)}, Parent(path))

\* variant: only the first file visited is walked
CollectDirectories_head(dirs, fileseq) ==
    IF fileseq = <<>> THEN dirs ELSE AddAncestors(dirs, Head(fileseq))

\* GitTrackedFiles::new, outer loop over the files in the set's iteration order
RECURSIVE CollectDirectories(_, _)
CollectDirectories(dirs, fileseq) ==
    IF fileseq = <<>> THEN dirs
    ELSE CollectDirectories(AddAncestors(dirs, Head(fileseq)), Tail(fileseq))

GitTrackedFilesNew(fileseq) ==
    [files |-> {fileseq[i] : i \in 1..Len(fileseq)},
     directories |-> CollectDirectories({}, fileseq),
     built |-> TRUE]

\* is_tracked, the final loop: some proper ancestor of the path is a file
RECURSIVE AncestorIsFile(_, _)
AncestorIsFile(files, path) ==
    IF ~HasParent(path) THEN FALSE
    ELSE Parent(path) \in files \/ AncestorIsFile(files, Parent(path))

\* GitTrackedFiles::is_tracked
is_tracked(t, path) ==
    \/ path \in t.files
    \/ path \in t.directories
    \/ AncestorIsFile(t.files, path)

InitGit ==
    /\ max_backends = MaxCfgBackends
    /\ ProxyInit
    /\ stdin = <<>>
    /\ nframes = 0
    /\ git_files \in {F \in SUBSET GitPaths : Cardinality(F) <= MaxFiles}
    /\ git_tracked = NoTracked
    /\ git_query = NoQuery
    /\ throttler = NewThrottler
    /\ outbound = <<>>
    /\ burst = NoBurst
    /\ last_restart = NoRestart
    /\ last_reap = NoReap
    /\ thr_obs = NoThrObs
    /\ git_cache = EmptyGitCache
    /\ cache_obs = NoCacheObs
    /\ teardown = NoTeardown
    /\ root_obs = NoRootObs
    /\ reader = NoReader
    /\ bline = NoLine

\* GitTrackedFiles::new(files)
git_new(fileseq) ==
    /\ ~git_tracked.built
    /\ fileseq \in Orderings(git_files)
    /\ git_tracked' = GitTrackedFilesNew(fileseq)
    /\ UNCHANGED <<pvars, ivars, git_files, git_query, tvars, xvars>>

\* tracked.is_tracked(path)
git_is_tracked(path) ==
    /\ git_tracked.built
    /\ git_query' = [path |-> path, asked |-> TRUE,
                     answer |-> is_tracked(git_tracked, path)]
    /\ UNCHANGED <<pvars, ivars, git_files, git_tracked, tvars, xvars>>

NextGit ==
    \/ \E fileseq \in Orderings(git_files) : git_new(fileseq)
    \/ \E path \in GitPaths : git_is_tracked(path)

SpecGit == InitGit /\ [][NextGit]_vars

\* ===========================================================================
\* Scenario: debounced file-change notifications (throttle.rs, proxy.rs)
\* ===========================================================================
\* A URI or path string is a sequence of tokens: "/" separators, "%2F" (a
\* percent-encoded separator) and names; a URI has the scheme prefix
\* "file://" or none.  A PathBuf compares by its components.
FileNames == {"x", "y"}

ClientUris(root, name) ==
    {[prefix |-> "file://", text |-> <<"/", root, "/", name>>],
     [prefix |-> "file://", text |-> <<"/", root, "%2F", name>>],
     [prefix |-> "", text |-> <<"/", root, "/", name>>]}

\* percent_decode_str(uri).decode_utf8()
PercentDecode(text) == [i \in 1..Len(text) |-> IF text[i] = "%2F" THEN "/" ELSE text[i]]

\* PathBuf::from(s): an absolute path and its components
PathBufFrom(text) == SelectSeq(text, LAMBDA c : c # "/")

\* uri_to_path (not windows): "file:///path" and "file://path" lose the seven
\* characters "file://", anything else is taken to be a path already
uri_to_path(uri) == PathBufFrom(PercentDecode(uri.text))

\* path.display().to_string()
RECURSIVE Display(_)
Display(path) ==
    IF path = <<>> THEN <<>> ELSE <<"/", Head(path)>> \o Display(Tail(path))

\* flush_throttled_events: format!("file:///{}", path.display())
PathToUri(path) == [prefix |-> "file://", text |-> <<"/">> \o Display(path)]

\* the workspace root a path falls under (roots are top-level directories)
PathRoot(path) == path[1]

\* variant: the new path replaces what was pending
add_path_replace(t, path) == [t EXCEPT !.pending_paths = {path}]

\* EventThrottler::add_path
add_path(t, path) == [t EXCEPT !.pending_paths = @ \cup {path}]

\* variant: only the window is looked at
should_flush_window_only(t, now) == now - t.last_flush >= t.debounce_duration

\* EventThrottler::should_flush
should_flush(t, now) ==
    t.pending_paths # {} /\ now - t.last_flush >= t.debounce_duration

\* variant: flush returns the pending paths without draining them
flush_keep_pending(t, now) == [t EXCEPT !.last_flush = now]

\* EventThrottler::flush: nothing happens when nothing is pending, else the
\* set is drained and last_flush reset
flush(t, now) ==
    IF t.pending_paths = {} THEN t
    ELSE [t EXCEPT !.pending_paths = {}, !.last_flush = now]

\* EventThrottler::flush, the value returned: None when nothing is pending,
\* else Some(ThrottledEvent) with the drained paths in the order the set
\* yields them
FlushEvent(t, paths) ==
    IF t.pending_paths = {} THEN [some |-> FALSE, paths |-> <<>>]
    ELSE [some |-> TRUE, paths |-> paths]

\* flush_throttled_events: the uris pushed for one root, in event order
UrisOf(paths, r) ==
    LET mine == SelectSeq(paths, LAMBDA q : PathRoot(q) = r)
    IN [i \in 1..Len(mine) |-> PathToUri(mine[i])]

\* flush_throttled_events: one notifications/files/didChange per root that
\* has a backend in the pool
RECURSIVE Batches(_, _, _, _)
Batches(paths, roots, pool, b) ==
    IF roots = <<>> THEN <<>>
    ELSE (IF Contains(pool, Head(roots))
          THEN <<[root |-> Head(roots), uris |-> UrisOf(paths, Head(roots)),
                  flush |-> b.flush, burst |-> b.uris]>>
          ELSE <<>>) \o Batches(paths, Tail(roots), pool, b)

InitDebounce ==
    /\ max_backends = MaxCfgBackends
    /\ ProxyInit
    /\ ScenarioIdle

\* handle_message, throttled branch: a file-change notification carrying uri
file_change_notification(root, uri) ==
    /\ handle_throttled(root)
    /\ PathRoot(uri_to_path(uri)) = root
    /\ throttler' = add_path(throttler, uri_to_path(uri))
    /\ burst' = [burst EXCEPT !.uris = Append(@, uri)]
    /\ UNCHANGED <<ivars, gvars, outbound, xvars>>

\* the throttle tick: should_flush, flush, group by root, send the batches
throttle_tick(paths, roots, crashing) ==
    /\ should_flush(throttler, clock)
    /\ paths \in Orderings(throttler.pending_paths)
    /\ flush_to_backends(roots, crashing)
    /\ throttler' = flush(throttler, clock)
    /\ outbound' = outbound \o Batches(paths, roots, order, burst)
    /\ burst' = [uris |-> <<>>, flush |-> burst.flush + 1]
    /\ UNCHANGED <<ivars, gvars, xvars>>

NextDebounce ==
    \/ \E root \in NextRoots, spawn_ok \in SpawnOutcomes, crash \in BOOLEAN :
           forward_notification_to_backend(root, spawn_ok, crash)
    \/ \E root \in NextRoots, name \in FileNames :
           \E uri \in ClientUris(root, name) : file_change_notification(root, uri)
    \/ \E paths \in Orderings(throttler.pending_paths), roots \in Orderings(throttled),
          crashing \in SUBSET throttled : throttle_tick(paths, roots, crashing)
    \/ advance_clock

SpecDebounce == InitDebounce /\ [][NextDebounce]_vars

\* ===========================================================================
\* Scenario: an EventThrottler on its own (throttle.rs)
\* ===========================================================================
\* the paths handed to add_path
ThrPaths == {<<r, n>> : r \in {RootSeq[1], RootSeq[2]}, n \in FileNames}

\* EventThrottler::new(debounce_ms) for a window of 0..DebounceTicks
InitThrottler ==
    /\ max_backends = MaxCfgBackends
    /\ ProxyInit
    /\ stdin = <<>>
    /\ nframes = 0
    /\ git_files = {}
    /\ git_tracked = NoTracked
    /\ git_query = NoQuery
    /\ \E d \in 0..DebounceTicks :
           /\ throttler = EventThrottlerNew(d, 0)
           /\ thr_obs = [NoThrObs EXCEPT !.window = d]
    /\ outbound = <<>>
    /\ burst = NoBurst
    /\ last_restart = NoRestart
    /\ last_reap = NoReap
    /\ git_cache = EmptyGitCache
    /\ cache_obs = NoCacheObs
    /\ teardown = NoTeardown
    /\ root_obs = NoRootObs
    /\ reader = NoReader
    /\ bline = NoLine

\* throttler.add_path(path)
thr_add_path(path) ==
    /\ throttler' = add_path(throttler, path)
    /\ thr_obs' = [thr_obs EXCEPT !.added = @ \cup {path}, !.asked = FALSE,
                                  !.flushed = FALSE]
    /\ UNCHANGED <<pvars, ivars, gvars, outbound, burst, last_restart, last_reap,
                   git_cache, cache_obs, yvars>>

\* throttler.should_flush()
thr_should_flush ==
    /\ thr_obs' = [thr_obs EXCEPT !.asked = TRUE, !.at = clock,
                                  !.answer = should_flush(throttler, clock),
                                  !.flushed = FALSE]
    /\ UNCHANGED <<pvars, ivars, gvars, tvars, last_restart, last_reap, git_cache,
                   cache_obs, yvars>>

\* throttler.flush(); paths is the order in which the set is drained
thr_flush(paths) ==
    /\ paths \in Orderings(throttler.pending_paths)
    /\ throttler' = flush(throttler, clock)
    /\ thr_obs' = [thr_obs EXCEPT !.flushed = TRUE, !.asked = FALSE, !.at = clock,
                                  !.some = FlushEvent(throttler, paths).some,
                                  !.paths = FlushEvent(throttler, paths).paths,
                                  !.before = thr_obs.added,
                                  !.added = {},
                                  !.since = IF thr_obs.added # {} THEN clock ELSE @]
    /\ UNCHANGED <<pvars, ivars, gvars, outbound, burst, last_restart, last_reap,
                   git_cache, cache_obs, yvars>>

NextThrottler ==
    \/ \E path \in ThrPaths : thr_add_path(path)
    \/ thr_should_flush
    \/ \E paths \in Orderings(throttler.pending_paths) : thr_flush(paths)
    \/ advance_clock

SpecThrottler == InitThrottler /\ [][NextThrottler]_vars

\* ===========================================================================
\* Scenario: the git tracked-files cache (proxy.rs, is_path_git_tracked)
\* ===========================================================================
\* GIT_CACHE_TTL_SECS (60 in the code), in clock units
GitCacheTtl == 1

\* GIT_CACHE_MAX_ENTRIES (10 in the code), scaled to the number of roots
GitCacheMaxEntries == 2

\* the roots with an entry in git_tracked_cache
Cached(cache) == {r \in Roots : cache[r].present}

\* the roots with an entry in git_cache_timestamps
Stamped(cache) == {r \in Roots : cache[r].stamped}

\* git_tracked_cache.remove(root); git_cache_timestamps.remove(root)
CacheRemove(cache, r) ==
    [cache EXCEPT ![r] = [present |-> FALSE, stamped |-> FALSE, ts |-> 0]]

\* git_cache_timestamps.iter().min_by_key(ts): the first entry, in the map's
\* iteration order, among those with the smallest timestamp
OldestRoot(cache, prio) ==
    LET oldest == {r \in Stamped(cache) : \A q \in Stamped(cache) : cache[r].ts <= cache[q].ts}
        first == CHOOSE i \in 1..Len(prio) :
                     /\ prio[i] \in oldest
                     /\ \A j \in 1..(i - 1) : prio[j] \notin oldest
    IN prio[first]

\* variant: nothing is evicted
EvictWhileFull_none(cache, prio) == cache

\* the loop: while git_tracked_cache.len() >= GIT_CACHE_MAX_ENTRIES, evict the
\* oldest entry of git_cache_timestamps; break when there is none
RECURSIVE EvictWhileFull(_, _)
EvictWhileFull(cache, prio) ==
    IF Cardinality(Cached(cache)) < GitCacheMaxEntries THEN cache
    ELSE IF Stamped(cache) = {} THEN cache
    ELSE EvictWhileFull(CacheRemove(cache, OldestRoot(cache, prio)), prio)

\* cache_expired: the timestamp is older than the TTL, or there is none
cache_expired(cache, r, now) ==
    IF cache[r].stamped THEN now - cache[r].ts > GitCacheTtl ELSE TRUE

\* is_path_git_tracked for a path under root, in the order of the code: drop
\* an expired entry, run the eviction loop, then look the root up and, on a
\* miss, fetch the tracked files and insert them when root is a repository
is_path_git_tracked(cache, root, now, is_repo, prio) ==
    LET c1 == IF cache_expired(cache, root, now) THEN CacheRemove(cache, root) ELSE cache
        c2 == EvictWhileFull(c1, prio)
        miss == ~c2[root].present
    IN [cache |-> IF miss /\ is_repo
                  THEN [c2 EXCEPT ![root] = [present |-> TRUE, stamped |-> TRUE,
                                             ts |-> now]]
                  ELSE c2,
        fetched |-> miss]

InitGitCache ==
    /\ max_backends = MaxCfgBackends
    /\ ProxyInit
    /\ ScenarioIdle

\* handle_message, git filter: is_path_git_tracked(path) for a path under
\* root; "-" is a path under no root, allowed without a look at the cache
git_cache_query(root, is_repo, prio) ==
    /\ pc = "idle"
    /\ IF root = "-"
       THEN /\ git_cache' = git_cache
            /\ cache_obs' = [NoCacheObs EXCEPT !.asked = TRUE, !.before = git_cache]
       ELSE LET res == is_path_git_tracked(git_cache, root, clock, is_repo, prio)
            IN /\ git_cache' = res.cache
               /\ cache_obs' = [asked |-> TRUE, root |-> root, before |-> git_cache,
                                hit |-> /\ git_cache[root].present
                                        /\ clock - git_cache[root].ts <= GitCacheTtl,
                                fetched |-> res.fetched]
    /\ UNCHANGED <<pvars, ivars, gvars, tvars, last_restart, last_reap, thr_obs, yvars>>

NextGitCache ==
    \/ \E root \in Roots \cup {"-"}, is_repo \in BOOLEAN, prio \in Orderings(Roots) :
           git_cache_query(root, is_repo, prio)
    \/ advance_clock

SpecGitCache == InitGitCache /\ [][NextGitCache]_vars

\* ===========================================================================
\* Scenario: the Unix ProcessGroup is dropped (process_group.rs)
\* ===========================================================================
\* the PIDs a ProcessGroup can track
Pids == 1..MaxSpawns

\* what kill(pid, signal) meets: a live process, no such process (ESRCH), or
\* a process the proxy may not signal (another error, EPERM)
ProcStatus == {"alive", "gone", "denied"}

\* the result of nix kill(pid, sig)
SignalResult(st) ==
    IF st = "alive" THEN "Ok" ELSE IF st = "gone" THEN "ESRCH" ELSE "EPERM"

\* variant: the loop over the PIDs ends at the first failed kill
NextPid_stop_on_error(i, n, res) == IF res = "Ok" THEN i + 1 ELSE n + 1

\* kill_all, either loop: every arm of the match only logs, and the loop goes
\* on with the next PID
NextPid(i, n, res) == i + 1

\* a ProcessGroup with any set of tracked PIDs, each process in any condition
InitTeardown ==
    /\ max_backends = MaxCfgBackends
    /\ ProxyInit
    /\ stdin = <<>>
    /\ nframes = 0
    /\ git_files = {}
    /\ git_tracked = NoTracked
    /\ git_query = NoQuery
    /\ throttler = NewThrottler
    /\ outbound = <<>>
    /\ burst = NoBurst
    /\ last_restart = NoRestart
    /\ last_reap = NoReap
    /\ thr_obs = NoThrObs
    /\ git_cache = EmptyGitCache
    /\ cache_obs = NoCacheObs
    /\ \E tr \in SUBSET Pids : \E st \in [tr -> ProcStatus] :
           teardown = [NoTeardown EXCEPT !.tracked = tr, !.status = st]
    /\ root_obs = NoRootObs
    /\ reader = NoReader
    /\ bline = NoLine

\* Drop for ProcessGroup: kill_all takes the lock and starts the first loop;
\* pids is the order in which children.iter() yields the set
pg_drop(pids) ==
    /\ teardown.phase = "live"
    /\ pids \in Orderings(teardown.tracked)
    /\ teardown' = [teardown EXCEPT !.phase = "term", !.order = pids, !.i = 1]
    /\ UNCHANGED <<pvars, ivars, gvars, tvars, last_restart, last_reap, thr_obs,
                   git_cache, cache_obs, root_obs, reader, bline>>

\* kill_all, first loop: kill(pid, SIGTERM)
pg_sigterm ==
    /\ teardown.phase = "term"
    /\ teardown.i <= Len(teardown.order)
    /\ LET pid == teardown.order[teardown.i]
           res == SignalResult(teardown.status[pid])
       IN teardown' = [teardown EXCEPT
              !.log = Append(@, [sig |-> "SIGTERM", pid |-> pid, res |-> res]),
              !.i = NextPid(teardown.i, Len(teardown.order), res)]
    /\ UNCHANGED <<pvars, ivars, gvars, tvars, last_restart, last_reap, thr_obs,
                   git_cache, cache_obs, root_obs, reader, bline>>

\* kill_all: sleep(100 ms) between the loops; the processes in dying, which
\* took the SIGTERM, are gone when it ends
pg_sleep(dying) ==
    /\ teardown.phase = "term"
    /\ teardown.i > Len(teardown.order)
    /\ \A p \in dying :
           /\ teardown.status[p] = "alive"
           /\ \E k \in 1..Len(teardown.log) : teardown.log[k].pid = p
    /\ teardown' = [teardown EXCEPT
           !.phase = "kill", !.i = 1,
           !.status = [p \in teardown.tracked |-> IF p \in dying THEN "gone" ELSE @[p]]]
    /\ UNCHANGED <<pvars, ivars, gvars, tvars, last_restart, last_reap, thr_obs,
                   git_cache, cache_obs, root_obs, reader, bline>>

\* kill_all, second loop: kill(pid, SIGKILL); after the last PID the lock is
\* released and the drop is over
pg_sigkill ==
    /\ teardown.phase = "kill"
    /\ teardown.i <= Len(teardown.order)
    /\ LET pid == teardown.order[teardown.i]
           res == SignalResult(teardown.status[pid])
       IN teardown' = [teardown EXCEPT
              !.log = Append(@, [sig |-> "SIGKILL", pid |-> pid, res |-> res]),
              !.status[pid] = IF @ = "alive" THEN "gone" ELSE @,
              !.i = NextPid(teardown.i, Len(teardown.order), res)]
    /\ UNCHANGED <<pvars, ivars, gvars, tvars, last_restart, last_reap, thr_obs,
                   git_cache, cache_obs, root_obs, reader, bline>>

\* kill_all returns
pg_done ==
    /\ teardown.phase = "kill"
    /\ teardown.i > Len(teardown.order)
    /\ teardown' = [teardown EXCEPT !.phase = "done"]
    /\ UNCHANGED <<pvars, ivars, gvars, tvars, last_restart, last_reap, thr_obs,
                   git_cache, cache_obs, root_obs, reader, bline>>

\* a tracked process ends by itself
pg_child_exits(pid) ==
    /\ teardown.phase # "done"
    /\ pid \in teardown.tracked
    /\ teardown.status[pid] = "alive"
    /\ teardown' = [teardown EXCEPT !.status[pid] = "gone"]
    /\ UNCHANGED <<pvars, ivars, gvars, tvars, last_restart, last_reap, thr_obs,
                   git_cache, cache_obs, root_obs, reader, bline>>

NextTeardown ==
    \/ \E pids \in Orderings(teardown.tracked) : pg_drop(pids)
    \/ pg_sigterm
    \/ \E dying \in SUBSET teardown.tracked : pg_sleep(dying)
    \/ pg_sigkill
    \/ pg_done
    \/ \E pid \in Pids : pg_child_exits(pid)

SpecTeardown == InitTeardown /\ [][NextTeardown]_vars

\* ===========================================================================
\* Scenario: root determination (proxy.rs, determine_root)
\* ===========================================================================
\* The workspace roots as paths: B lies inside A, C beside them.
RootPath(r) ==
    IF r = RootSeq[1] THEN <<RootSeq[1]>>
    ELSE IF r = RootSeq[2] THEN <<RootSeq[1], RootSeq[2]>>
    ELSE <<r>>

\* request.get_uri() and uri_to_path: no path (no uri, or one that does not
\* decode), a file right under a root, or a file under no root
NoPath == <<>>

RequestPaths ==
    {NoPath, <<"D", "f">>} \cup {Append(RootPath(r), "f") : r \in Roots}

\* path.starts_with(root), by components
StartsWith(path, root) ==
    Len(root) <= Len(path) /\ \A i \in 1..Len(root) : path[i] = root[i]

\* find_git_root(path) can return the roots above the path that hold a .git
GitRootsOf(path) == {r \in Roots : StartsWith(path, RootPath(r))} \cup {"-"}

\* variant: the first known root that contains the path is taken
determine_root_first_match(roots, default, path, git_root) ==
    LET matched == {i \in 1..Len(roots) : StartsWith(path, RootPath(roots[i]))}
    IN IF path # NoPath /\ matched # {}
       THEN roots[CHOOSE i \in matched : \A j \in matched : i <= j]
       ELSE IF path # NoPath /\ git_root # "-" THEN git_root
       ELSE IF default # "-" THEN default
       ELSE IF roots # <<>> THEN roots[1]
       ELSE "-"

\* determine_root: "-" is None
determine_root(roots, default, path, git_root) ==
    LET matched == {i \in 1..Len(roots) : StartsWith(path, RootPath(roots[i]))}
    IN IF path # NoPath /\ matched # {}
       THEN roots[CHOOSE i \in matched : \A j \in matched :
                      \/ Len(RootPath(roots[j])) < Len(RootPath(roots[i]))
                      \/ (Len(RootPath(roots[j])) = Len(RootPath(roots[i])) /\ j <= i)]
       ELSE IF path # NoPath /\ git_root # "-" THEN git_root
       ELSE IF default # "-" THEN default
       ELSE IF roots # <<>> THEN roots[1]
       ELSE "-"

\* the lists of known roots the client can have sent
KnownRoots ==
    {<<>>} \cup {<<r>> : r \in Roots}
           \cup {rq \in Roots \X Roots : rq[1] # rq[2]}

\* the proxy after initialize: any list of known roots, any default root
InitRoute ==
    /\ max_backends = MaxCfgBackends
    /\ ProxyInit
    /\ stdin = <<>>
    /\ nframes = 0
    /\ git_files = {}
    /\ git_tracked = NoTracked
    /\ git_query = NoQuery
    /\ throttler = NewThrottler
    /\ outbound = <<>>
    /\ burst = NoBurst
    /\ last_restart = NoRestart
    /\ last_reap = NoReap
    /\ thr_obs = NoThrObs
    /\ git_cache = EmptyGitCache
    /\ cache_obs = NoCacheObs
    /\ teardown = NoTeardown
    /\ \E roots \in KnownRoots, default \in Roots \cup {"-"} :
           root_obs = [NoRootObs EXCEPT !.roots = roots, !.default = default]
    /\ reader = NoReader
    /\ bline = NoLine

\* route_to_backend for a request with the given path, find_git_root
\* answering git_root
route_request(id, path, git_root, spawn_ok, wok) ==
    /\ git_root \in GitRootsOf(path)
    /\ LET r == determine_root(root_obs.roots, root_obs.default, path, git_root)
       IN /\ IF r = "-" THEN route_no_root(id, wok)
             ELSE route_to_root(id, r, spawn_ok, wok)
          /\ root_obs' = [root_obs EXCEPT
                 !.asked = TRUE, !.path = path, !.git_root = git_root, !.answer = r,
                 !.for = nread + 1,
                 !.before = [order |-> order, inst |-> inst, pending |-> pending,
                             children |-> children, tracked |-> tracked]]
    /\ UNCHANGED <<ivars, gvars, tvars, last_restart, last_reap, thr_obs, git_cache,
                   cache_obs, teardown, reader, bline>>

\* the backends answer every request, and the client reads every response
NextRoute ==
    \/ \E path \in RequestPaths, git_root \in Roots \cup {"-"},
          spawn_ok \in SpawnOutcomes :
           route_request(Num(1), path, git_root, spawn_ok, TRUE)
    \/ \E spawn_ok \in SpawnOutcomes : send_request_with_retry(spawn_ok, FALSE, TRUE)
    \/ send_request_reply(TRUE)
    \/ \E pid \in 1..Len(children) :
           \E line \in children[pid].inbox : child_replies(pid, line, FALSE, FALSE)

SpecRoute == InitRoute /\ [][NextRoute]_vars

\* ===========================================================================
\* Scenario: a backend writes responses nobody asked for (backend.rs, reader)
\* ===========================================================================
\* response lines the scenario lets a backend write
MaxLines == 2

\* the ids a backend can put on a response: numbers, a numeric string and a
\* string that is no number
BackendIds ==
    {Num(k) : k \in 0..(MaxMsgs + 1)} \cup {Str(Dec(1)), Str(<<"x">>)}

InitReader ==
    /\ max_backends = MaxCfgBackends
    /\ ProxyInit
    /\ ScenarioIdle

\* child pid writes a response line carrying rid, and its reader task reads it
backend_line(pid, rid) ==
    /\ Running
    /\ children[pid].alive
    /\ bline.n < MaxLines
    /\ ReaderTask(pid, SuccessResp(rid, 0))
    /\ bline' = [n |-> bline.n + 1, pid |-> pid, id |-> rid,
                 known |-> \E e \in pending[pid] :
                               \/ rid.tag = "Number" /\ rid.n = e.proxy_id
                               \/ rid.tag = "String" /\ rid.s = Dec(e.proxy_id)]
    /\ UNCHANGED <<max_backends, order, inst, children, tracked, next_proxy_id, clock, pc,
                   cur, stdout, nread, nroots, throttled, goc, shutting_down>>
    /\ UNCHANGED <<ivars, gvars, tvars, last_restart, last_reap, thr_obs, git_cache,
                   cache_obs, teardown, root_obs, reader>>

NextReader ==
    \/ \E id \in ClientIds, root \in NextRoots, spawn_ok \in SpawnOutcomes :
           route_to_backend(id, root, spawn_ok, TRUE)
    \/ \E spawn_ok \in SpawnOutcomes : send_request_with_retry(spawn_ok, FALSE, TRUE)
    \/ send_request_reply(TRUE)
    \/ send_request_timeout(TRUE)
    \/ \E pid \in 1..Len(children), as_string \in BOOLEAN :
           \E line \in children[pid].inbox : child_replies(pid, line, as_string, FALSE)
    \/ \E pid \in 1..Len(children), rid \in BackendIds : backend_line(pid, rid)

SpecReader == InitReader /\ [][NextReader]_vars

\* ===========================================================================
\* Scenario: inbound framing under the select of the run loop (proxy.rs)
\* ===========================================================================
\* The bytes of stdin in the pieces read_line and read_exact can see them
\* arrive in: the two halves of a line ("frag" without, "eol" with the
\* newline), a Content-Length header line, the blank line after the headers,
\* and a body of exactly Content-Length bytes (no newline after it).
Framings == {"nl", "cl"}

Token(k, n) == [k |-> k, m |-> n]

\* message n as the client writes it in the given framing
Framed(n, framing) ==
    IF framing = "nl" THEN <<Token("frag", n), Token("eol", n)>>
    ELSE <<Token("hdr", n), Token("blank", n), Token("body", n)>>

\* what handle_message should be given for message n
Intact(n, framing) ==
    IF framing = "nl" THEN <<Token("frag", n), Token("eol", n)>>
    ELSE <<Token("body", n)>>

RECURSIVE Stream(_, _)
Stream(sent, n) ==
    IF n > Len(sent) THEN <<>> ELSE Framed(n, sent[n]) \o Stream(sent, n + 1)

\* the token ends with a newline
EndsLine(t) == t.k \in {"eol", "hdr", "blank"}

\* the read_next_message future is dropped when another branch of the select
\* completes: first_line, the parsed content_length and the bytes read_line
\* or read_exact had taken from the BufReader go with it
CancelRead(fut) == NewFuture

\* read_next_message resumed with the next piece t of stdin: the future after
\* it, and the message returned if the piece completes one
ReadPiece(fut, t) ==
    LET line == Append(fut.acc, t)
    IN IF fut.phase = "body"
       THEN [fut |-> NewFuture, out |-> <<line>>]
       ELSE IF ~EndsLine(t)
       THEN [fut |-> [fut EXCEPT !.acc = line], out |-> <<>>]
       ELSE IF fut.phase = "headers"
       THEN [fut |-> [fut EXCEPT !.acc = <<>>,
                                 !.phase = IF line = <<Token("blank", t.m)>>
                                           THEN "body" ELSE "headers"],
             out |-> <<>>]
       ELSE IF line = <<Token("blank", t.m)>>
       THEN [fut |-> NewFuture, out |-> <<>>]
       ELSE IF line[1].k = "hdr"
       THEN [fut |-> [phase |-> "headers", acc |-> <<>>, len_of |-> t.m], out |-> <<>>]
       ELSE [fut |-> NewFuture, out |-> <<line>>]

\* the client has written up to MaxMsgs messages, each in either framing
InitFraming ==
    /\ max_backends = MaxCfgBackends
    /\ ProxyInit
    /\ stdin = <<>>
    /\ nframes = 0
    /\ git_files = {}
    /\ git_tracked = NoTracked
    /\ git_query = NoQuery
    /\ throttler = NewThrottler
    /\ outbound = <<>>
    /\ burst = NoBurst
    /\ last_restart = NoRestart
    /\ last_reap = NoReap
    /\ thr_obs = NoThrObs
    /\ git_cache = EmptyGitCache
    /\ cache_obs = NoCacheObs
    /\ teardown = NoTeardown
    /\ root_obs = NoRootObs
    /\ \E n \in 1..MaxMsgs : \E sent \in [1..n -> Framings] :
           reader = [NoReader EXCEPT !.sent = sent, !.stream = Stream(sent, 1)]
    /\ bline = NoLine

\* the select polls read_next_message and the next piece of stdin is there;
\* a completed message goes to handle_message
read_piece ==
    /\ ~reader.done
    /\ reader.stream # <<>>
    /\ LET res == ReadPiece(reader.fut, Head(reader.stream))
       IN reader' = [reader EXCEPT !.stream = Tail(@), !.fut = res.fut,
                                   !.handed = @ \o res.out]
    /\ UNCHANGED <<pvars, ivars, gvars, tvars, last_restart, last_reap, thr_obs,
                   git_cache, cache_obs, teardown, root_obs, bline>>

\* the end of stdin: read_line returns what it holds of an unfinished line,
\* or 0 and the loop ends
read_end ==
    /\ ~reader.done
    /\ reader.stream = <<>>
    /\ reader' = IF reader.fut.phase = "first" /\ reader.fut.acc # <<>>
                 THEN [reader EXCEPT !.fut = NewFuture, !.handed = Append(@, reader.fut.acc)]
                 ELSE [reader EXCEPT !.done = TRUE]
    /\ UNCHANGED <<pvars, ivars, gvars, tvars, last_restart, last_reap, thr_obs,
                   git_cache, cache_obs, teardown, root_obs, bline>>

\* select: cleanup_tick.tick() or throttle_tick.tick() completes while the
\* read is pending; its handler runs and the loop makes a new future
select_tick ==
    /\ ~reader.done
    /\ reader.fut # NewFuture
    /\ reader' = [reader EXCEPT !.fut = CancelRead(@)]
    /\ UNCHANGED <<pvars, ivars, gvars, tvars, last_restart, last_reap, thr_obs,
                   git_cache, cache_obs, teardown, root_obs, bline>>

NextFraming ==
    \/ read_piece
    \/ read_end
    \/ select_tick

SpecFraming == InitFraming /\ [][NextFraming]_vars

\* ===========================================================================
\* Scenario: the client protocol (run, read_next_message, handle_message)
\* ===========================================================================
\* What read_next_message can meet on stdin: a message body (a line, or a
\* well-framed Content-Length body), a Content-Length header whose value is
\* not a number, or the end of the stream.
Methods == {"initialize", "shutdown", "exit", "notifications/roots/listChanged",
            "notifications/file/didChange", "tools/call"}

\* methods handled by the proxy itself carry no root
Routed(method) == method \in {"notifications/file/didChange", "tools/call"}

\* a body that does not deserialize as a JsonRpcRequest
InvalidJson == [frame |-> "body", json |-> FALSE, method |-> "-", id |-> NoId, root |-> "-"]

BadContentLength ==
    [frame |-> "bad_content_length", json |-> FALSE, method |-> "-", id |-> NoId, root |-> "-"]

Eof == [frame |-> "eof", json |-> FALSE, method |-> "-", id |-> NoId, root |-> "-"]

Request(method, id, root) ==
    [frame |-> "body", json |-> TRUE, method |-> method, id |-> id, root |-> root]

\* the bodies the client can send next
ClientBodies ==
    {InvalidJson}
    \cup {Request(m, id, "-") : m \in {x \in Methods : ~Routed(x)}, id \in {NoId, Num(1)}}
    \cup {Request(m, id, r) : m \in {x \in Methods : Routed(x)}, id \in {NoId, Num(1)},
                              r \in NextRoots}

\* JsonRpcRequest::is_notification
is_notification(m) == m.id = NoId

\* JsonRpcRequest::is_initialize / is_shutdown / is_exit: the method alone
is_initialize(m) == m.method = "initialize"

is_shutdown(m) == m.method = "shutdown"

is_exit(m) == m.method = "exit"

\* should_throttle_notification, with the throttler enabled (debounce_ms > 0)
should_throttle_notification(m) == m.method = "notifications/file/didChange"

\* read_next_message returns Ok(Some(())): a message body is in hand
read_next_message(m) ==
    /\ pc = "idle"
    /\ nframes = nread
    /\ nread < MaxMsgs
    /\ m \in ClientBodies
    /\ stdin' = Append(stdin, m)
    /\ nframes' = nframes + 1
    /\ UNCHANGED <<pvars, gvars, tvars, xvars>>

\* read_next_message returns Err for a Content-Length value that does not
\* parse; run logs the error and breaks out of the loop
read_bad_content_length ==
    /\ nframes = nread
    /\ stdin' = Append(stdin, BadContentLength)
    /\ loop_ends
    /\ UNCHANGED <<nframes, gvars, tvars, xvars>>

\* read_next_message returns Ok(None) at the end of the stream (an I/O
\* error ends the loop the same way)
read_eof ==
    /\ nframes = nread
    /\ stdin' = Append(stdin, Eof)
    /\ loop_ends
    /\ UNCHANGED <<nframes, gvars, tvars, xvars>>

\* handle_message, parse failure: an error response without id
handle_parse_error(wok) ==
    /\ pc = "idle"
    /\ nread < MaxMsgs
    /\ nread' = nread + 1
    /\ UNCHANGED <<svars, max_backends, next_proxy_id, clock, nroots, throttled, goc,
                   shutting_down>>
    /\ WriteResponse(World,
           Entry(ErrorResp(NoId, ERROR_PARSE_ERROR, "ParseError", "Parse error"),
                 [NoCur EXCEPT !.reqno = nread + 1]),
           wok)

\* handle_initialize (prewarm_default_root off, the default): the roots are
\* recorded and the server capabilities returned under the request's id
handle_initialize(id, wok) ==
    /\ pc = "idle"
    /\ nread < MaxMsgs
    /\ nread' = nread + 1
    /\ UNCHANGED <<svars, max_backends, next_proxy_id, clock, nroots, throttled, goc,
                   shutting_down>>
    /\ WriteResponse(World,
           Entry([SuccessResp(id, 0) EXCEPT !.msg = "server_capabilities"],
                 [NoCur EXCEPT !.reqno = nread + 1, !.id = id]),
           wok)

\* handle_roots_changed: the roots are replaced; nothing is returned
handle_roots_changed ==
    /\ pc = "idle"
    /\ nread < MaxMsgs
    /\ nread' = nread + 1
    /\ UNCHANGED <<svars, max_backends, order, inst, children, pending, tracked,
                   next_proxy_id, clock, pc, cur, slot, stdout, nroots, throttled, goc,
                   shutting_down>>

\* handle_message: the dispatch on the message in hand, in the code's order
handle_message(spawn_ok, crash, wok) ==
    /\ nframes = nread + 1
    /\ LET m == stdin[nframes]
       IN IF ~m.json THEN handle_parse_error(wok)
          ELSE IF is_initialize(m) THEN handle_initialize(m.id, wok)
          ELSE IF is_shutdown(m) THEN handle_shutdown(m.id, wok)
          ELSE IF is_exit(m) THEN handle_exit
          ELSE IF m.method = "notifications/roots/listChanged" THEN handle_roots_changed
          ELSE IF is_notification(m)
               THEN IF should_throttle_notification(m)
                    THEN throttle_notification(m.root)
                    ELSE forward_notification_to_backend(m.root, spawn_ok, crash)
               ELSE route_to_backend(m.id, m.root, spawn_ok, wok)

InitProtocol ==
    /\ max_backends = MaxCfgBackends
    /\ ProxyInit
    /\ ScenarioIdle

NextProtocol ==
    \/ \E m \in ClientBodies : read_next_message(m)
    \/ read_bad_content_length
    \/ read_eof
    \/ \E spawn_ok \in SpawnOutcomes, crash \in BOOLEAN, wok \in BOOLEAN :
           handle_message(spawn_ok, crash, wok)
    \/ \E spawn_ok \in SpawnOutcomes, crash \in BOOLEAN, wok \in BOOLEAN :
           send_request_with_retry(spawn_ok, crash, wok)
    \/ \E wok \in BOOLEAN : send_request_reply(wok)
    \/ \E wok \in BOOLEAN : send_request_timeout(wok)
    \/ \E pid \in 1..Len(children), as_string \in BOOLEAN, exits \in BOOLEAN :
           \E line \in children[pid].inbox : child_replies(pid, line, as_string, exits)

SpecProtocol == InitProtocol /\ [][NextProtocol]_vars

\* ===========================================================================
\* Scenario: BackendInstance::restart observed on its own
\* ===========================================================================
\* The proxy runs as in Spec until send_request_with_retry is about to
\* restart the backend of the request in progress; the restart is then taken
\* as a step of its own and the scenario ends there.
InitRestart ==
    /\ max_backends = MaxCfgBackends
    /\ ProxyInit
    /\ ScenarioIdle

\* send_request_with_retry: `self.restart().await`
restart_call(spawn_ok) ==
    /\ pc = "attempt"
    /\ NeedsRestart(inst[cur.root], cur.attempt)
    /\ LET rs == restart(World, cur.root, spawn_ok, clock)
       IN /\ Commit(rs.w)
          /\ last_restart' = [done |-> TRUE, root |-> cur.root, ok |-> rs.ok,
                              old_child |-> inst[cur.root].child,
                              spawned |-> Len(children)]
    /\ UNCHANGED <<max_backends, next_proxy_id, clock, pc, cur, slot, stdout, nread,
                   nroots, throttled, goc, shutting_down, ivars, gvars, tvars,
                   last_reap, thr_obs, git_cache, cache_obs, yvars>>

NextRestart ==
    \/ \E id \in ClientIds, root \in NextRoots, spawn_ok \in SpawnOutcomes, wok \in BOOLEAN :
           ~last_restart.done /\ route_to_backend(id, root, spawn_ok, wok)
    \/ \E root \in NextRoots, spawn_ok \in SpawnOutcomes, crash \in BOOLEAN :
           ~last_restart.done /\ forward_notification_to_backend(root, spawn_ok, crash)
    \/ \E spawn_ok \in SpawnOutcomes, crash \in BOOLEAN, wok \in BOOLEAN :
           /\ ~last_restart.done
           /\ pc = "attempt"
           /\ ~NeedsRestart(inst[cur.root], cur.attempt)
           /\ send_request_with_retry(spawn_ok, crash, wok)
    \/ \E wok \in BOOLEAN : ~last_restart.done /\ send_request_reply(wok)
    \/ \E wok \in BOOLEAN : ~last_restart.done /\ send_request_timeout(wok)
    \/ \E pid \in 1..Len(children), as_string \in BOOLEAN, exits \in BOOLEAN :
           \E line \in children[pid].inbox :
               ~last_restart.done /\ child_replies(pid, line, as_string, exits)
    \/ \E pid \in 1..Len(children) : ~last_restart.done /\ child_exits(pid)
    \/ \E spawn_ok \in SpawnOutcomes : ~last_restart.done /\ restart_call(spawn_ok)

SpecRestart == InitRestart /\ [][NextRestart]_vars

\* ===========================================================================
\* Scenario: cleanup_idle_backends observed on its own
\* ===========================================================================
\* The proxy runs as in Spec; the cleanup tick records the pool it found and
\* the scenario ends there.
InitReap ==
    /\ max_backends = MaxCfgBackends
    /\ ProxyInit
    /\ ScenarioIdle

\* run: the cleanup tick, cleanup_idle_backends(idle_ttl)
reap_call ==
    /\ select_ready(pc)
    /\ order # <<>>
    /\ Commit(cleanup_idle_backends(World, IdleTtl, clock))
    /\ last_reap' = [done |-> TRUE, order |-> order, inst |-> inst, pending |-> pending]
    /\ UNCHANGED <<max_backends, next_proxy_id, clock, pc, cur, slot, stdout, nread,
                   nroots, throttled, goc, shutting_down, ivars, gvars, tvars,
                   last_restart, thr_obs, git_cache, cache_obs, yvars>>

NextReap ==
    \/ \E id \in ClientIds, root \in NextRoots, spawn_ok \in SpawnOutcomes, wok \in BOOLEAN :
           ~last_reap.done /\ route_to_backend(id, root, spawn_ok, wok)
    \/ \E root \in NextRoots, spawn_ok \in SpawnOutcomes, crash \in BOOLEAN :
           ~last_reap.done /\ forward_notification_to_backend(root, spawn_ok, crash)
    \/ \E spawn_ok \in SpawnOutcomes, crash \in BOOLEAN, wok \in BOOLEAN :
           ~last_reap.done /\ send_request_with_retry(spawn_ok, crash, wok)
    \/ \E wok \in BOOLEAN : ~last_reap.done /\ send_request_reply(wok)
    \/ \E wok \in BOOLEAN : ~last_reap.done /\ send_request_timeout(wok)
    \/ \E pid \in 1..Len(children), as_string \in BOOLEAN, exits \in BOOLEAN :
           \E line \in children[pid].inbox :
               ~last_reap.done /\ child_replies(pid, line, as_string, exits)
    \/ \E pid \in 1..Len(children) : ~last_reap.done /\ child_exits(pid)
    \/ ~last_reap.done /\ advance_clock
    \/ ~last_reap.done /\ reap_call

SpecReap == InitReap /\ [][NextReap]_vars

\* ===========================================================================
\* Properties
\* ===========================================================================
PoolRoots == {order[i] : i \in 1..Len(order)}

AllChildrenDead == \A pid \in 1..Len(children) : ~children[pid].alive

\* N = max(max_backends, 1)
PoolBound == IF max_backends >= 1 THEN max_backends ELSE 1

\* C1 -- ID translation round-trip: every response handed back by
\* send_request (the reply slot) and every response written to stdout carries
\* the id of the client request it answers, whether that id is an integer or
\* a string and whether or not the backend was restarted before the reply.
IdRoundTrip ==
    /\ slot.kind # "none" => slot.id = cur.id
    /\ \A i \in 1..Len(stdout) : stdout[i].id = stdout[i].cid

\* C1 witness: a backend's answer to a request with a string id reached the
\* client after send_request_with_retry had restarted the backend.
IdRoundTripWitness ==
    \E i \in 1..Len(stdout) :
        /\ stdout[i].kind = "result"
        /\ stdout[i].root # "-"
        /\ stdout[i].restarts >= 1
        /\ stdout[i].cid.tag = "String"

\* C2 -- ID isolation: a response a backend emitted for one request is
\* delivered only to the caller of that request: the payload handed to a
\* waiting send_request, and the payload of every backend answer on stdout,
\* is the answer to the very request it is delivered for.
IdIsolation ==
    /\ slot.kind = "result" => slot.val = cur.reqno
    /\ \A i \in 1..Len(stdout) :
           stdout[i].val # 0 => stdout[i].val = stdout[i].for

\* C2 witness: two requests with the same client id, sent to two different
\* roots, were both answered by their backends.
IdIsolationWitness ==
    \E i, j \in 1..Len(stdout) :
        /\ i < j
        /\ stdout[i].kind = "result" /\ stdout[j].kind = "result"
        /\ stdout[i].val # 0 /\ stdout[j].val # 0
        /\ stdout[i].cid = stdout[j].cid
        /\ stdout[i].root # stdout[j].root

\* C3 -- Bounded pool: in every reachable state the pool holds at most
\* N = max(max_backends, 1) backends, each root at most once.
BoundedPool ==
    /\ Len(order) <= PoolBound
    /\ Cardinality(PoolRoots) = Len(order)

\* C3 witness: the pool is at its bound of two backends right after
\* get_or_create_backend evicted one to make room.
BoundedPoolWitness ==
    /\ max_backends = 2
    /\ Len(order) = 2
    /\ goc.victim # "-"
    /\ goc.err = "none"

\* a step of the run loop that calls get_or_create_backend
GetOrCreateStep == pc = "idle" /\ nread' = nread + 1 /\ goc'.reqno = nread + 1

IdleInPool == {r \in PoolRoots : pending[inst[r].pending] = {}}

\* C4 -- LRU eviction fairness: when get_or_create_backend is called for a
\* root that is not in a full pool, then (a) if some backend has no pending
\* request, exactly one backend is removed, it has no pending request and
\* its last_used is the oldest among the backends without pending requests,
\* and its child is killed; (b) if every backend has pending requests, the
\* call fails with BackendUnavailable and the pool is left as it was.
LruEvictionFair ==
    [][GetOrCreateStep =>
         LET root == goc'.root
             full == Len(order) >= PoolBound /\ root \notin PoolRoots
             removed == {r \in PoolRoots : ~Contains(order', r)}
         IN /\ ~full => goc'.victim = "-"
            /\ (~full /\ pc' # "failed") => removed = {}
            /\ (full /\ IdleInPool = {}) =>
                   /\ goc'.err = "BackendUnavailable"
                   /\ goc'.victim = "-"
                   /\ pc' # "failed" =>
                          /\ order' = order /\ inst' = inst
                          /\ children' = children /\ tracked' = tracked
            /\ (full /\ IdleInPool # {}) =>
                   /\ goc'.err # "BackendUnavailable"
                   /\ goc'.victim \in IdleInPool
                   /\ \A r \in IdleInPool :
                          inst[goc'.victim].last_used <= inst[r].last_used
                   /\ inst[goc'.victim].child # 0 =>
                          ~children'[inst[goc'.victim].child].alive
                   /\ pc' # "failed" => removed = {goc'.victim}
    ]_vars

\* C4 witness: with a pool of two, a request for a third root evicted the
\* backend of the root used first.
LruEvictionFairWitness ==
    /\ max_backends = 2
    /\ goc.root = RootSeq[3]
    /\ goc.victim = RootSeq[1]
    /\ PoolRoots = {RootSeq[2], RootSeq[3]}

\* the requests to root r answered before stdout[i] exist and none of them
\* got an answer from its backend: each ended in an error after a deadline
Unanswered(r, i) ==
    /\ \E j \in 1..(i - 1) : stdout[j].root = r
    /\ \A j \in 1..(i - 1) :
           stdout[j].root = r => stdout[j].kind = "error" /\ stdout[j].expiries >= 1

\* C5 -- Pool full, all busy: with N = 2, after the client has sent requests
\* to roots A and B whose backends never replied and both are in the pool,
\* a request for a third root C is answered with code -32002 and neither A
\* nor B is evicted.
PoolFullAllBusy ==
    \A i \in 1..Len(stdout) :
        ( /\ max_backends = 2
          /\ stdout[i].root = RootSeq[3]
          /\ stdout[i].pool = <<RootSeq[1], RootSeq[2]>>
          /\ Unanswered(RootSeq[1], i)
          /\ Unanswered(RootSeq[2], i) )
        => /\ stdout[i].code = ERROR_BACKEND_UNAVAILABLE
           /\ stdout[i].victim = "-"

\* C6 -- No leaks: when run has called shutdown_all_backends and it has
\* returned, the pool is empty and every child process ever spawned in this
\* run is dead.
NoLeaksAfterShutdownAll ==
    pc = "stopped" => order = <<>> /\ AllChildrenDead

\* C6 witness: shutdown_all_backends has returned in a run in which one
\* backend was restarted and one was evicted.
NoLeaksWitness ==
    /\ pc = "stopped"
    /\ Len(children) >= 3
    /\ \E i \in 1..Len(stdout) : stdout[i].restarts >= 1
    /\ \E i \in 1..Len(stdout) : stdout[i].victim # "-"

\* C7 -- Every spawned child is terminated when the proxy exits, whether run
\* returned Ok (EOF, exit, shutdown, read error) or returned the write error
\* without calling shutdown_all_backends.
AllTerminatedAtExit ==
    pc \in {"exited", "failed"} => AllChildrenDead

\* C7 witness: the process ended on a stdout write error after it had
\* spawned children and written a response.
AllTerminatedWitness ==
    /\ pc = "failed"
    /\ Len(children) >= 2
    /\ Len(stdout) >= 1
    /\ ~shutting_down

\* C8 -- Backend crash and retry: with a backend that exits after answering
\* one request and two requests to its root, the client sees no error
\* response, at most two children are ever spawned and a request is restarted
\* at most once; when both answers are written the first took no restart,
\* the second took exactly one and exactly two children were spawned.
CrashRetryOnce ==
    /\ \A i \in 1..Len(stdout) : stdout[i].kind = "result" /\ stdout[i].val = stdout[i].for
    /\ Len(children) <= 2
    /\ cur.restarts <= 1
    /\ Len(stdout) = 2 =>
           /\ stdout[1].restarts = 0
           /\ stdout[2].restarts = 1
           /\ Len(children) = 2

\* C8 witness: both requests have been answered, the second after a restart.
CrashRetryOnceWitness ==
    /\ Len(stdout) = 2
    /\ stdout[2].restarts = 1
    /\ stdout[2].expiries = 1

\* C9 -- The supervisor tracks no terminated child: every tracked PID is the
\* child of a backend in the pool, so once a backend has been shut down its
\* child's PID is not tracked, and after shutdown_all the tracked set is
\* empty.
SupervisorTracksNoTerminated ==
    /\ \A pid \in tracked : \E r \in PoolRoots : inst[r].child = pid
    /\ pc = "stopped" => tracked = {}

\* the run loop takes the next client message
ReadsNextMessage ==
    \/ \E id \in ClientIds, root \in NextRoots, spawn_ok \in SpawnOutcomes, wok \in BOOLEAN :
           route_to_backend(id, root, spawn_ok, wok)
    \/ \E root \in NextRoots, spawn_ok \in SpawnOutcomes, crash \in BOOLEAN :
           forward_notification_to_backend(root, spawn_ok, crash)
    \/ \E id \in ClientIds, wok \in BOOLEAN : handle_shutdown(id, wok)
    \/ \E root \in NextRoots : throttle_notification(root)
    \/ handle_exit

\* C10 -- Timeout: a request that ends in BackendTimeout is answered after a
\* single expiry of request_timeout, and while a request is outstanding the
\* proxy can read the client's next message.
TimeoutSingleExpiryResponsive ==
    /\ \A i \in 1..Len(stdout) :
           stdout[i].err = "BackendTimeout" => stdout[i].expiries = 1
    /\ (pc = "await" /\ nread < MaxMsgs) => ENABLED ReadsNextMessage

\* q is a proper prefix of path: q names a proper ancestor directory of path
IsProperAncestor(q, path) ==
    Len(q) < Len(path) /\ \A i \in 1..Len(q) : q[i] = path[i]

\* C12 -- Git filter correctness: is_tracked(p) on GitTrackedFiles::new(files)
\* is true iff p is in files, or p is a proper ancestor of some file in
\* files, or some proper ancestor of p is in files; it is false for every
\* path when files is empty.
GitFilterCorrect ==
    git_query.asked =>
        /\ git_query.answer =
               ( \/ git_query.path \in git_files
                 \/ \E f \in git_files : IsProperAncestor(git_query.path, f)
                 \/ \E f \in git_files : IsProperAncestor(f, git_query.path) )
        /\ git_files = {} => ~git_query.answer

\* C12 witness: a directory two levels above a tracked file, itself not a
\* file of the set, was asked and answered tracked.
GitFilterCorrectWitness ==
    /\ git_query.asked
    /\ git_query.answer
    /\ git_query.path \notin git_files
    /\ \E f \in git_files : IsProperAncestor(git_query.path, f) /\ Len(f) = Len(git_query.path) + 2

\* the distinct paths of a burst that fall under root r
BurstPaths(uris, r) ==
    {uri_to_path(uris[i]) : i \in {k \in 1..Len(uris) : PathRoot(uri_to_path(uris[k])) = r}}

NotificationsNeverAnswered ==
    \A i \in 1..Len(stdout) :
        LET m == stdin[stdout[i].for]
        IN ~(m.json /\ is_notification(m))

\* C14 -- A malformed inbound message never ends the read loop: the loop has
\* ended only after a shutdown or exit, or at the end of stdin (or an I/O
\* error), never because of what the client sent.
MalformedNeverEndsLoop ==
    (pc = "stopped" /\ ~shutting_down) => stdin[Len(stdin)] = Eof

\* the messages handled so far that are shutdown requests carrying an id
ShutdownRequests ==
    {k \in 1..nread : stdin[k].json /\ is_shutdown(stdin[k]) /\ ~is_initialize(stdin[k])
                      /\ ~is_notification(stdin[k])}

\* C15 -- Graceful shutdown: once a shutdown request with id i has been
\* handled and its response written, stdout holds exactly one response to
\* it, with id i and the result null; every backend has been shut down and
\* the pool is empty; the run loop has ended and no later message was
\* handled or routed to a backend.
GracefulShutdown ==
    \A k \in ShutdownRequests :
        pc # "failed" =>
            /\ Cardinality({i \in 1..Len(stdout) : stdout[i].for = k}) = 1
            /\ \A i \in 1..Len(stdout) :
                   stdout[i].for = k =>
                       /\ stdout[i].id = stdin[k].id
                       /\ stdout[i].kind = "result"
                       /\ stdout[i].val = 0
                       /\ stdout[i].msg = "-"
                       /\ i = Len(stdout)
            /\ order = <<>>
            /\ AllChildrenDead
            /\ pc = "stopped"
            /\ nread = k
            /\ nframes = k

\* C15 witness: a shutdown request was answered after a backend had been
\* spawned and had answered a request.
GracefulShutdownWitness ==
    /\ ShutdownRequests # {}
    /\ pc = "stopped"
    /\ Len(children) >= 1
    /\ Len(stdout) >= 2
    /\ stdout[1].kind = "result"

\* the backend of root r has lost a task: its child is gone (the reader task
\* met EOF) or its writer task has ended
TaskEnded(r) ==
    \/ inst[r].child # 0 /\ ~children[inst[r].child].alive
    \/ inst[r].stdin_tx # 0 /\ ~children[inst[r].stdin_tx].writer

\* C16 -- Ready-state invariant: a backend of the pool whose state is Ready
\* has a live child, a stdin sender whose receiver is not dropped, and
\* running writer and reader tasks.
ReadyStateInvariant ==
    \A i \in 1..Len(order) :
        LET b == inst[order[i]]
        IN b.state = "Ready" =>
               /\ b.child # 0
               /\ children[b.child].alive
               /\ b.stdin_tx # 0
               /\ children[b.stdin_tx].writer

\* C17 -- Pending-entry lifetime: while no send_request is in progress (the
\* main task is not awaiting a reply) no backend of the pool has a pending
\* entry, so has_pending() is false.
PendingOnlyWhileInProgress ==
    pc # "await" => \A i \in 1..Len(order) : ~has_pending(World, order[i])

\* the proxy ids held anywhere: in a pending table, in a line a child has
\* read, or by the send_request in progress
ProxyIdsInUse ==
    UNION {{e.proxy_id : e \in pending[t]} : t \in 1..Len(pending)}
    \cup UNION {{l.id.n : l \in children[p].inbox} : p \in 1..Len(children)}
    \cup (IF cur.proxy_id # 0 THEN {cur.proxy_id} ELSE {})

\* C18 -- Proxy ids are unique and monotonic: the counter starts at 1 and
\* only grows, by one per allocation; an id that comes into use is the
\* counter's value before the step, so every id in use is below the counter
\* and no two pending entries, on one backend or on two, before or after a
\* restart, share an id.
ProxyIdsUniqueMonotonic ==
    /\ next_proxy_id = 1
    /\ [](/\ \A id \in ProxyIdsInUse : 1 <= id /\ id < next_proxy_id
          /\ \A t1 \in 1..Len(pending), t2 \in 1..Len(pending) :
                 \A e1 \in pending[t1], e2 \in pending[t2] :
                     e1.proxy_id = e2.proxy_id => (t1 = t2 /\ e1 = e2))
    /\ [][/\ next_proxy_id' \in {next_proxy_id, next_proxy_id + 1}
          /\ (ProxyIdsInUse' \ ProxyIdsInUse) \subseteq {next_proxy_id}
          /\ (ProxyIdsInUse' \ ProxyIdsInUse) # {} => next_proxy_id' = next_proxy_id + 1]_vars

\* C18 witness: the retried request was sent again to the restarted backend
\* under a new proxy id.
ProxyIdsUniqueMonotonicWitness ==
    /\ pc = "await"
    /\ cur.attempt = 1
    /\ cur.restarts = 1
    /\ cur.proxy_id = 2
    /\ next_proxy_id = 3

\* C19 -- Reader/writer task failure marks the backend Dead: when the next
\* send_request_with_retry starts on a backend whose reader task has met
\* EOF or whose writer task has ended, the backend's state is Dead.
TaskFailureMarksDead ==
    (pc = "attempt" /\ cur.attempt = 0 /\ TaskEnded(cur.root)) => is_dead(inst[cur.root])

\* C20 -- Backend death fails the waiting request promptly: a send_request
\* that awaits its reply from a backend whose process has died ends without
\* the request timeout elapsing, with the state Dead and its pending entry
\* removed.
DeathFailsWaitingPromptly ==
    [][(/\ pc = "await"
        /\ slot.kind = "none"
        /\ ~children[inst[cur.root].child].alive
        /\ pc' # "await")
       => (/\ clock' = clock
           /\ inst'[cur.root].state = "Dead"
           /\ \A e \in pending'[inst[cur.root].pending] : e.proxy_id # cur.proxy_id)]_vars

\* the deadline of the send_request in progress elapses and the response, if
\* this was the last attempt, is written
TimeoutStep ==
    /\ pc = "await"
    /\ slot.kind = "none"
    /\ clock' = clock + 1
    /\ pc' # "failed"

RetryStep ==
    /\ pc \in {"attempt", "await"}
    /\ pc' # "failed"
    /\ (pc' # pc \/ cur' # cur)

\* C22 -- Retry bound: one call of send_request_with_retry makes at most
\* 1 + max_retries attempts and at most max_retries restarts, none before
\* the first attempt; it stops at the first attempt that succeeds and
\* returns its response; when the last attempt fails it returns the error
\* of that attempt.
RetryBound ==
    /\ [](cur.attempt <= RouteMaxRetries /\ cur.restarts <= cur.attempt)
    /\ [][RetryStep =>
           /\ Len(children') <= Len(children) + 1
           /\ (pc = "attempt" /\ cur.attempt = 0) => Len(children') = Len(children)
           /\ pc = "await" => Len(children') = Len(children)
           /\ pc' = "attempt" =>
                  /\ cur'.attempt = cur.attempt + 1
                  /\ cur'.reqno = cur.reqno
           /\ pc' = "await" => (pc = "attempt" /\ cur'.attempt = cur.attempt)
           /\ (pc = "await" /\ slot.kind # "none") =>
                  /\ pc' = "idle"
                  /\ stdout' = Append(stdout, Entry(slot, cur))
           /\ (pc' = "idle" /\ ~(pc = "await" /\ slot.kind # "none")) =>
                  /\ cur.attempt = RouteMaxRetries
                  /\ Len(stdout') = Len(stdout) + 1
                  /\ stdout'[Len(stdout')].kind = "error"
                  /\ stdout'[Len(stdout')].for = cur.reqno
                  /\ stdout'[Len(stdout')].err =
                         (IF pc = "await" THEN "BackendTimeout"
                          ELSE IF is_dead(inst[cur.root]) /\ Len(children') = Len(children)
                               THEN "BackendSpawnFailed"
                               ELSE "BackendUnavailable")]_vars

\* C22 witness: a request whose first attempt timed out was answered, after
\* the failed restart of its second attempt, with the restart's error.
RetryBoundWitness ==
    /\ pc = "idle"
    /\ stdout # <<>>
    /\ LET e == stdout[Len(stdout)]
       IN /\ e.err = "BackendSpawnFailed"
          /\ e.code = ERROR_INTERNAL_ERROR
          /\ e.expiries = 1
          /\ e.restarts = 0

\* C23 -- Restart ownership: after restart() returns Ok the backend is Ready
\* with an open stdin channel and an empty pending table, and owns exactly
\* one live child, the newly spawned one; the previous child has been
\* killed and the drop of the temporary instance has not killed the new
\* one.  After restart() returns Err the backend is Dead and owns no child.
RestartOwnership ==
    last_restart.done =>
        LET b == inst[last_restart.root]
        IN IF last_restart.ok
           THEN /\ b.state = "Ready"
                /\ b.stdin_tx # 0
                /\ children[b.stdin_tx].writer
                /\ pending[b.pending] = {}
                /\ Len(children) = last_restart.spawned + 1
                /\ b.child = Len(children)
                /\ children[b.child].alive
                /\ last_restart.old_child # 0 => ~children[last_restart.old_child].alive
                /\ \A q \in Roots \ {last_restart.root} : inst[q].child # b.child
           ELSE /\ b.state = "Dead"
                /\ b.child = 0
                /\ b.stdin_tx = 0
                /\ Len(children) = last_restart.spawned

\* C23 witness: a restart succeeded on a backend whose previous child was
\* still running when the restart began (its request had timed out).
RestartOwnershipWitness ==
    /\ last_restart.done
    /\ last_restart.ok
    /\ last_restart.old_child # 0
    /\ cur.expiries = 1
    /\ children[inst[last_restart.root].child].alive

\* every backend of the pool has a pending entry
AllBusy == \A i \in 1..Len(order) : pending[inst[order[i]].pending] # {}

\* C24 -- get_or_create for a root absent from a full pool in which every
\* backend has pending requests fails with BackendUnavailable, spawns no
\* process, shuts down no backend and leaves the pool's membership and LRU
\* order (and every backend in it) unchanged.
PoolFullFrame ==
    [][(/\ GetOrCreateStep
        /\ pc' # "failed"
        /\ ~Contains(order, goc'.root)
        /\ Len(order) >= Cap
        /\ AllBusy)
       => (/\ goc'.err = "BackendUnavailable"
           /\ goc'.victim = "-"
           /\ children' = children
           /\ order' = order
           /\ inst' = inst
           /\ pending' = pending
           /\ tracked' = tracked
           /\ pc' = "idle"
           /\ Len(stdout') > Len(stdout) =>
                  /\ stdout'[Len(stdout')].code = ERROR_BACKEND_UNAVAILABLE
                  /\ stdout'[Len(stdout')].for = nread + 1)]_vars

\* C24 witness: a request for a root outside a full pool whose backends all
\* have a pending entry was refused with BackendUnavailable.
PoolFullFrameWitness ==
    /\ pc = "idle"
    /\ goc.err = "BackendUnavailable"
    /\ goc.reqno = nread
    /\ order # <<>>
    /\ Len(order) >= Cap
    /\ ~Contains(order, goc.root)
    /\ AllBusy
    /\ stdout # <<>>
    /\ stdout[Len(stdout)].for = nread
    /\ stdout[Len(stdout)].code = ERROR_BACKEND_UNAVAILABLE

\* the backends cleanup_idle_backends found that it has to remove: those not
\* Ready, and the Ready ones idle for longer than the ttl with nothing
\* pending
ReapDue ==
    {r \in Roots :
        /\ Contains(last_reap.order, r)
        /\ \/ last_reap.inst[r].state # "Ready"
           \/ /\ clock - last_reap.inst[r].last_used > IdleTtl
              /\ last_reap.pending[last_reap.inst[r].pending] = {}}

\* C25 -- cleanup_idle_backends(ttl) removes exactly the backends that fail
\* the health check together with the healthy ones whose last_used is older
\* than ttl and that have no pending request; every removed backend is shut
\* down (its child killed), every other backend stays as it was, and the
\* survivors keep their relative LRU order.
ReapIdleExact ==
    last_reap.done =>
        /\ order = SelectSeq(last_reap.order, LAMBDA r : r \notin ReapDue)
        /\ \A r \in ReapDue :
               /\ inst[r] = Absent
               /\ last_reap.inst[r].child # 0 => ~children[last_reap.inst[r].child].alive
               /\ last_reap.inst[r].stdin_tx # 0 =>
                      ~children[last_reap.inst[r].stdin_tx].writer
        /\ \A r \in Roots \ ReapDue : inst[r] = last_reap.inst[r]
        /\ pending = last_reap.pending

\* C25 witness: of two backends in the pool the cleanup removed the one that
\* was idle for longer than the ttl and kept the other.
ReapIdleExactWitness ==
    /\ last_reap.done
    /\ Len(last_reap.order) = 2
    /\ Len(order) = 1
    /\ \E r \in ReapDue : last_reap.inst[r].state = "Ready" /\ last_reap.inst[r].child # 0

\* C26 -- should_flush() is true if and only if something is pending and the
\* time since the last flush (since construction if nothing was flushed yet)
\* is at least the debounce window; on an empty throttler it is false, also
\* with a window of zero.
ShouldFlushExact ==
    thr_obs.asked =>
        /\ thr_obs.answer <=>
               (thr_obs.added # {} /\ thr_obs.at - thr_obs.since >= thr_obs.window)
        /\ thr_obs.added = {} => ~thr_obs.answer

\* C26 witness: should_flush was asked of an empty throttler whose window is
\* zero, after a batch had been flushed.
ShouldFlushExactWitness ==
    /\ thr_obs.asked
    /\ thr_obs.window = 0
    /\ thr_obs.added = {}
    /\ thr_obs.before # {}

\* C27 -- flush() returns a batch with exactly the distinct paths added since
\* the previous flush, each once, leaves nothing pending and resets
\* last_flush; with nothing pending it returns no batch.
FlushDrains ==
    thr_obs.flushed =>
        /\ throttler.pending_paths = {}
        /\ thr_obs.before # {} =>
               /\ thr_obs.some
               /\ {thr_obs.paths[i] : i \in 1..Len(thr_obs.paths)} = thr_obs.before
               /\ Len(thr_obs.paths) = Cardinality(thr_obs.before)
               /\ throttler.last_flush = thr_obs.at
        /\ thr_obs.before = {} => ~thr_obs.some /\ thr_obs.paths = <<>>

\* C27 witness: some time after construction a flush returned a batch of two
\* paths.
FlushDrainsWitness ==
    /\ thr_obs.flushed
    /\ thr_obs.some
    /\ Len(thr_obs.paths) = 2
    /\ thr_obs.at > 0

\* a step of flush_throttled_events that flushed the throttler
FlushStep == burst'.flush # burst.flush

\* C28 -- flush_throttled_events never creates or evicts a backend: the pool
\* keeps its members and no process is spawned; a batch goes only to roots
\* whose backend is in the pool; the paths of a root without a backend are
\* dropped with the rest, nothing stays pending.
FlushFrame ==
    [][FlushStep =>
        /\ {order'[i] : i \in 1..Len(order')} = {order[i] : i \in 1..Len(order)}
        /\ Len(order') = Len(order)
        /\ \A r \in Roots : (inst'[r] = Absent) <=> (inst[r] = Absent)
        /\ \A r \in Roots : inst'[r].child = inst[r].child
        /\ Len(children') = Len(children)
        /\ tracked' = tracked
        /\ \A i \in 1..Len(outbound') :
               i > Len(outbound) => Contains(order, outbound'[i].root)
        /\ \A pid \in 1..Len(children) :
               children'[pid] # children[pid] =>
                   \E r \in Roots : Contains(order, r) /\ inst[r].child = pid
        /\ throttler'.pending_paths = {}]_vars

\* C28 witness: a flush delivered a batch to one root while the burst also
\* held a path of a root that had no backend and got none; nothing is pending
\* afterwards.
FlushFrameWitness ==
    /\ burst.uris = <<>>
    /\ throttler.pending_paths = {}
    /\ outbound # <<>>
    /\ LET last == outbound[Len(outbound)]
       IN /\ last.flush = burst.flush - 1
          /\ \E i \in 1..Len(last.burst) :
                 /\ ~Contains(order, PathRoot(uri_to_path(last.burst[i])))
                 /\ \A j \in 1..Len(outbound) :
                        outbound[j].flush = last.flush =>
                            outbound[j].root # PathRoot(uri_to_path(last.burst[i]))

\* C29 -- for every set of files and every order in which they are visited,
\* the directories computed by GitTrackedFiles::new are exactly the proper
\* ancestors of the files: the early stop at an ancestor already present
\* omits none.
DirectoriesAreAllAncestors ==
    git_tracked.built =>
        /\ \A f \in git_files : \A k \in 0..(Len(f) - 1) :
               SubSeq(f, 1, k) \in git_tracked.directories
        /\ \A q \in git_tracked.directories :
               \E f \in git_files : IsProperAncestor(q, f)

\* C29 witness: two files in the same directory were walked, so the walk of
\* the second stopped at their common parent.
DirectoriesAreAllAncestorsWitness ==
    /\ git_tracked.built
    /\ \E f \in git_files, g \in git_files :
           /\ f # g
           /\ Len(f) = 2
           /\ Len(g) = 2
           /\ Parent(f) = Parent(g)
           /\ Parent(f) \in git_tracked.directories
           /\ <<>> \in git_tracked.directories

\* C30 -- the git cache is rebuilt and evicted from only on miss or expiry: a
\* query whose root has an unexpired entry fetches nothing and leaves the
\* cache and every timestamp as they were, however many entries there are;
\* an entry other than the queried one disappears only when a new entry is
\* inserted into a full cache.
GitCacheHitIsFrame ==
    cache_obs.asked =>
        /\ cache_obs.hit => (git_cache = cache_obs.before /\ ~cache_obs.fetched)
        /\ \A r \in Roots :
               (r # cache_obs.root /\ cache_obs.before[r].present /\ ~git_cache[r].present)
                   => /\ ~cache_obs.hit
                      /\ Cardinality({q \in Roots : cache_obs.before[q].present
                                                    /\ q # cache_obs.root})
                             >= GitCacheMaxEntries

\* C31 -- the git cache is bounded: after any sequence of queries it holds at
\* most GIT_CACHE_MAX_ENTRIES entries, and git_tracked_cache and
\* git_cache_timestamps have the same roots as keys.
GitCacheBounded ==
    /\ Cardinality(Cached(git_cache)) <= GitCacheMaxEntries
    /\ Cached(git_cache) = Stamped(git_cache)

\* C31 witness: a query that missed found the cache full and left it full.
GitCacheBoundedWitness ==
    /\ cache_obs.asked
    /\ cache_obs.fetched
    /\ Cardinality(Cached(cache_obs.before)) = GitCacheMaxEntries
    /\ Cardinality(Cached(git_cache)) = GitCacheMaxEntries
    /\ git_cache[cache_obs.root].present

\* the positions in the signal log of the signals sig sent to pid
SentTo(sig, pid) ==
    {k \in 1..Len(teardown.log) : teardown.log[k].sig = sig /\ teardown.log[k].pid = pid}

\* C32 -- when the ProcessGroup is dropped, SIGTERM goes to every tracked PID
\* before SIGKILL goes to any, and SIGKILL then goes to every tracked PID; a
\* failed kill (ESRCH or another error) on one PID does not keep the signals
\* from the others.
TeardownOrder ==
    /\ \A a \in 1..Len(teardown.log), b \in 1..Len(teardown.log) :
           (teardown.log[a].sig = "SIGTERM" /\ teardown.log[b].sig = "SIGKILL") => a < b
    /\ (\E k \in 1..Len(teardown.log) : teardown.log[k].sig = "SIGKILL")
           => \A p \in teardown.tracked : Cardinality(SentTo("SIGTERM", p)) = 1
    /\ teardown.phase = "done"
           => \A p \in teardown.tracked : Cardinality(SentTo("SIGKILL", p)) = 1

\* C32 witness: the drop is over for two tracked PIDs, of which the first in
\* the iteration was already gone at its SIGTERM and the second was alive.
TeardownOrderWitness ==
    /\ teardown.phase = "done"
    /\ Len(teardown.order) = 2
    /\ teardown.log[1].res = "ESRCH"
    /\ teardown.log[2].res = "Ok"
    /\ Len(teardown.log) = 4

\* the known roots that contain the path of the latest request
RootsAbove ==
    {r \in Roots : /\ Contains(root_obs.roots, r)
                   /\ root_obs.path # NoPath
                   /\ StartsWith(root_obs.path, RootPath(r))}

\* C33 -- root determination follows a fixed priority: the longest known root
\* the request's path lies under; else the git root detected for the path;
\* else the default root; else the first known root; and only when there is
\* none of these the request is answered BackendUnavailable, the pool left
\* as it was.
RootPriority ==
    root_obs.asked =>
        /\ IF RootsAbove # {}
           THEN /\ root_obs.answer \in RootsAbove
                /\ \A q \in RootsAbove :
                       Len(RootPath(q)) <= Len(RootPath(root_obs.answer))
           ELSE IF root_obs.path # NoPath /\ root_obs.git_root # "-"
           THEN root_obs.answer = root_obs.git_root
           ELSE IF root_obs.default # "-"
           THEN root_obs.answer = root_obs.default
           ELSE IF root_obs.roots # <<>>
           THEN root_obs.answer = root_obs.roots[1]
           ELSE root_obs.answer = "-"
        /\ (root_obs.answer = "-" /\ pc = "idle") =>
               /\ \E k \in 1..Len(stdout) :
                      /\ stdout[k].for = root_obs.for
                      /\ stdout[k].code = -32002
               /\ order = root_obs.before.order
               /\ inst = root_obs.before.inst
               /\ pending = root_obs.before.pending
               /\ Len(children) = Len(root_obs.before.children)
               /\ tracked = root_obs.before.tracked
        /\ (root_obs.answer # "-" /\ pc = "idle") =>
               \A k \in 1..Len(stdout) :
                   (stdout[k].for = root_obs.for /\ stdout[k].kind = "error")
                       => stdout[k].root = root_obs.answer

\* C33 witness: with A and B both known and C the default, a request for a
\* file under B (which lies inside A) went to B.
RootPriorityWitness ==
    /\ root_obs.asked
    /\ Cardinality(RootsAbove) = 2
    /\ root_obs.answer = RootSeq[2]
    /\ root_obs.default = RootSeq[3]

\* C34 -- every error written to the client carries the code of its class:
\* BackendSpawnFailed -32001, BackendUnavailable -32002, BackendTimeout
\* -32003, RoutingFailed -32004; a routed request that fails because its
\* deadline elapsed is answered with -32003.
ErrorCodesFollowTaxonomy ==
    \A i \in 1..Len(stdout) :
        stdout[i].kind = "error" =>
            /\ stdout[i].err = "BackendSpawnFailed" => stdout[i].code = -32001
            /\ stdout[i].err = "BackendUnavailable" => stdout[i].code = -32002
            /\ stdout[i].err = "BackendTimeout" => stdout[i].code = -32003
            /\ stdout[i].err = "RoutingFailed" => stdout[i].code = -32004

\* C35 -- a backend response whose id names no outstanding proxy id of that
\* backend (an unknown id, a string that is no number, the late reply to a
\* request that timed out) reaches no caller and leaves the pending tables
\* as they are.
UnknownResponseDropped ==
    [][(bline'.n # bline.n /\ ~bline'.known)
           => (pending' = pending /\ slot' = slot /\ stdout' = stdout)]_vars

\* C35 witness: while a call waits for its reply, the backend wrote the reply
\* to an earlier request that had timed out, and the line was dropped.
UnknownResponseDroppedWitness ==
    /\ bline.n > 0
    /\ ~bline.known
    /\ bline.id.tag = "Number"
    /\ bline.id.n >= 1
    /\ bline.id.n < next_proxy_id
    /\ pc = "await"
    /\ slot = NoResp
    /\ inst[cur.root].child = bline.pid
    /\ pending[bline.pid] # {}
    /\ \E k \in 1..Len(stdout) : stdout[k].err = "BackendTimeout"

\* what handle_message is due for the first n messages the client wrote
RECURSIVE Due(_)
Due(n) ==
    IF n = 0 THEN <<>> ELSE Append(Due(n - 1), Intact(n, reader.sent[n]))

\* C36 -- inbound framing survives the timers: every complete message written
\* to stdin, in either framing, is handed to handle_message exactly once and
\* intact, whatever ticks interleave with its partially completed read.
FramingSurvivesTicks ==
    /\ \E n \in 0..Len(reader.sent) : reader.handed = Due(n)
    /\ reader.done => reader.handed = Due(Len(reader.sent))

\* C37 -- exactly one response per request: every message that parses and
\* carries an id, whatever its method and however routing ends, gets exactly
\* one response with that id on stdout, and the responses come in the order
\* the requests were read.
ExactlyOneResponse ==
    pc \in {"idle", "stopped"} =>
        /\ \A k \in 1..nread :
               (stdin[k].json /\ stdin[k].id # NoId) =>
                   Cardinality({i \in 1..Len(stdout) :
                                    stdout[i].for = k /\ stdout[i].id = stdin[k].id}) = 1
        /\ \A i \in 1..Len(stdout), j \in 1..Len(stdout) :
               i < j => stdout[i].for < stdout[j].for

\* C38 -- a failed get_or_create leaves the pool unchanged: when
\* get_or_create_backend returns an error (pool refusal or spawn failure)
\* the backends in the pool and their states are as before the call, and no
\* existing backend was shut down.  Steps in which the error response cannot
\* be written are left out: the run loop then ends and tears the pool down.
FailedGetOrCreateKeepsPool ==
    [][(GetOrCreateStep /\ goc'.err # "none" /\ pc' # "failed") =>
           /\ order' = order
           /\ inst' = inst
           /\ \A r \in Roots :
                  (Contains(order, r) /\ inst[r].child # 0) =>
                      children'[inst[r].child].alive = children[inst[r].child].alive]_vars

\* C39 -- the pool's LRU order agrees with last_used: of any two backends in
\* the pool, the one nearer the LRU end has a last_used no later than the
\* other's.
LruOrderAgreesWithLastUsed ==
    \A i \in 1..Len(order), j \in 1..Len(order) :
        i < j => inst[order[i]].last_used <= inst[order[j]].last_used

\* C39 (amended) -- the order agrees with last_used in every state except
\* between get_or_create_backend's promotion and the first send_request of
\* the same handler, which sets last_used.
LruOrderAgreesOutsideDispatch ==
    ~(pc = "attempt" /\ cur.attempt = 0) => LruOrderAgreesWithLastUsed

\* an older backend was used again after a younger one and the send is done
LruOrderAgreesWitness ==
    /\ pc = "await"
    /\ Len(order) >= 2
    /\ order[Len(order)] = cur.root
    /\ cur.pool # <<>>
    /\ cur.pool[Len(cur.pool)] # cur.root
    /\ Contains(cur.pool, cur.root)
    /\ inst[order[1]].last_used < inst[cur.root].last_used

\* C40 -- no backend is shut down by LRU eviction or by idle/health reaping
\* while a request dispatched to it awaits its reply: while the main task
\* awaits, no get_or_create_backend (and so no eviction) and no reaping runs,
\* and the backend stays in the pool.  Only a failed write to the client,
\* which ends the run loop, is left out.
NoShutdownWhileAwaiting ==
    [][pc = "await" =>
           \/ pc' = "failed"
           \/ /\ Contains(order', cur.root)
              /\ order' = order
              /\ goc' = goc]_vars

\* a request awaits its reply while a reaping pass, if it ran, would remove a
\* backend of the pool
NoShutdownWhileAwaitingWitness ==
    /\ pc = "await"
    /\ Contains(order, cur.root)
    /\ CleanupMarked(World, IdleTtl, clock) # <<>>

====
